---- MODULE Spec2Model ----
(***************************************************************************)
(* Verification model of echo-web's call lifecycle:                        *)
(*   - CallStateManager (src/lib/CallStateManager.ts), the process-wide    *)
(*     singleton holding the ActiveCallState and the shared manager;       *)
(*   - useVoiceCall (src/hooks/useVoiceCall.ts), whose joinCall suspends   *)
(*     at two awaits and may therefore interleave with other handlers;     *)
(*   - MinimizedCallBar's end-call button;                                 *)
(*   - useVoiceInviteNotifications, the pending-invite list and its        *)
(*     expiry timers.                                                      *)
(* VoiceVideoManager itself is not part of the sources at hand; its        *)
(* methods are modelled by the effect its callers rely on, with every      *)
(* asynchronous method free to resolve or to reject.                       *)
(***************************************************************************)
EXTENDS Integers, Sequences, FiniteSets, TLC

\* ------------------------------------------------------------------ bounds
NumChannels == 2
NumSurfaces == 2
MaxManagers == 2
MaxCallTime == 1
NumInviters == 2
MaxReceived == 3
MaxTime == 3
\* inviteExpirationMs, the hook's option, in ticks of the model's clock.
InviteTTL == 2
NumPeers == 3
MaxCandidates == 1
MaxFailures == 1

Channels == 1 .. NumChannels
Surfaces == 1 .. NumSurfaces
ManagerIds == 1 .. MaxManagers
CallTypes == {"voice", "video"}
Inviters == 1 .. NumInviters

\* The listener functions that subscribe to the CallStateManager.
NumListeners == 2
Listeners == 1 .. NumListeners
\* A listener that has not been called yet holds nothing.
Undelivered == [undelivered |-> TRUE]
\* The remote participants, the media streams and the video tiles the
\* manager reports.
NumMembers == 2
NumStreams == 1
NumTiles == 1
MemberIds == 1 .. NumMembers
Streams == 1 .. NumStreams
TileIds == 1 .. NumTiles
NumTilePeers == 1
TilePeers == 1 .. NumTilePeers
\* One VoiceService instance and the remote clients of its channel.
MaxSockets == 2
MaxConnects == 2
MaxOrphans == 1
NumRemotes == 1
RemotePeers == 1 .. NumRemotes
NoSocket == 0
NoStream == 0
NoMember == 0
NoChannel == 0
NoManager == 0
NULL == [none |-> TRUE]
NoLink == [none |-> TRUE]   \* peerConnections.get(id) is undefined
Peers == 1 .. NumPeers
NoError == "null"   \* a string state holding null

\* serverId and channelName are props of the hook, fixed by the channel shown.
ServerOf(ch) == 100 + ch
NameOf(ch) == 200 + ch

VARIABLES
    voiceManager,   \* CallStateManager.voiceManager: NoManager or a manager id
    callState,      \* CallStateManager.callState: NULL or an ActiveCallState
    mgr,            \* the VoiceVideoManager instances created so far
    created,        \* how many instances `new VoiceVideoManager` has produced
    threw,          \* the last CallStateManager operation raised to its caller
    pc,             \* per hook instance: where its joinCall is suspended
    jm,             \* per hook instance: joinCall's local `voiceManager`
    jch,            \* per hook instance: the channelId joinCall closed over
    now,            \* Date.now()
    last,           \* the handler that ran last
    invites,        \* useVoiceInviteNotifications: the `invites` state
    timerMap,       \* expirationTimersRef.current: the ids it has a timer for
    timeouts,       \* the browser's pending setTimeout callbacks
    received,       \* how many invite events have arrived
    isInitialized,  \* VoiceCallProvider: isInitialized
    permissionError,\* VoiceCallProvider: permissionError
    activeCall,     \* VoiceCallProvider: activeCall's channelId, or NoChannel
    isConnecting,   \* VoiceCallProvider: isConnecting
    connectionError,\* VoiceCallProvider: connectionError
    vpc,            \* per joinCall invocation of the provider: where it is
    vch,            \* per joinCall invocation in flight: its channelId
    tried,          \* per invocation: the strategies initializeManager tried
    pmChannel,      \* the provider's manager: the channel it was asked to join
    failure,        \* the error of the acquisition that failed for good
    chInitialized,  \* EnhancedVoiceChannel: isManagerInitialized.current
    chPermissionError, \* EnhancedVoiceChannel: permissionError
    status,         \* per VoiceService client: "new", "joined" or "left"
    inbox,          \* per client: the socket events on their way to it
    peerConnections,\* per client: VoiceService.peerConnections
    openPcs,        \* per client: the peers it has an unclosed connection for
    candidate,      \* per sender and receiver: what became of the ICE candidate
    mediaMuted,     \* per manager of the singleton: getMediaState().muted
    pmCreated,      \* VoiceCallProvider: managerRef.current is set
    pmMuted,        \* the provider's manager: getMediaState().muted
    localMuted,     \* VoiceCallProvider: localMediaState.muted
    listeners,      \* CallStateManager.listeners
    delivered,      \* per listener: the object it was handed last, as it is now
    shared,         \* the listeners holding the object of the last notification
    pParticipants,  \* VoiceCallProvider: participants
    videoTiles,     \* VoiceCallProvider: videoTiles, tileId -> owner or NoMember
    participants,   \* EnhancedVoiceChannel: participants
    chListening,    \* EnhancedVoiceChannel: the manager's callbacks are registered
    rosterSeen,     \* the members last passed on to the onVoiceRoster prop
    socket,         \* one VoiceService: this.socket, or NoSocket
    liveSockets,    \* the sockets it has created that are not disconnected
    joinedSockets,  \* the live sockets that have emitted join_voice_channel
    socketsMade,    \* how many sockets (and media streams) it has created
    awaiting,       \* how many connect() calls are awaiting getUserMedia
    localStream,    \* this.localStream: the stream of the k-th getUserMedia
    liveStreams,    \* the streams whose tracks have not been stopped
    svcPeerConnections, \* this.peerConnections
    orphans,        \* connections created, not closed and not registered
    present,        \* the remote clients in the channel
    pending,        \* the socket events on their way to the service
    disconnected,   \* disconnect() was called and connect() not since
    chChannelId,    \* EnhancedVoiceChannel: the channelId prop
    chJoin,         \* the channel its manager was last asked to join
    chJoinPc,       \* "idle", or "joining" while joinVoiceChannel is awaited
    barMuted,       \* MinimizedCallBar: isMuted
    barSeen         \* the call state its mute-sync effect last ran for

listenerVars == <<listeners, delivered, shared>>
callVars == <<voiceManager, callState, mgr, created, threw, pc, jm, jch,
              listenerVars>>
inviteVars == <<invites, timerMap, timeouts, received>>
providerVars == <<isInitialized, permissionError, activeCall, isConnecting,
                  connectionError, vpc, vch, tried, pmChannel>>
channelVars == <<chInitialized, chPermissionError>>
deviceVars == <<providerVars, channelVars, failure>>
voiceVars == <<status, inbox, peerConnections, openPcs, candidate>>
muteVars == <<mediaMuted, pmCreated, pmMuted, localMuted>>
tileVars == <<pParticipants, videoTiles>>
rosterVars == <<participants, chListening, rosterSeen>>
serviceVars == <<socket, liveSockets, joinedSockets, socketsMade, awaiting,
                 localStream, liveStreams, svcPeerConnections, orphans,
                 present, pending, disconnected>>
joinVars == <<chChannelId, chJoin, chJoinPc>>
barVars == <<barMuted, barSeen>>
endVars == <<joinVars, barVars>>
afterTileVars == <<rosterVars, serviceVars, endVars>>
laterVars == <<tileVars, afterTileVars>>
otherVars == <<deviceVars, voiceVars, muteVars, laterVars>>
vars == <<voiceManager, callState, mgr, created, threw, pc, jm, jch,
          listenerVars, now, last, invites, timerMap, timeouts, received, otherVars>>

\* ------------------------------------------------- VoiceVideoManager (API)
\* A manager as its callers see it: the channel it was last asked to join and
\* has not left, what isConnected() answers, and which teardown methods have
\* been invoked on it.
FreshManager ==
    [exists |-> TRUE, channel |-> NoChannel, connected |-> FALSE,
     leaveInvoked |-> FALSE, disconnectInvoked |-> FALSE]

NotCreated ==
    [exists |-> FALSE, channel |-> NoChannel, connected |-> FALSE,
     leaveInvoked |-> FALSE, disconnectInvoked |-> FALSE]

isConnected(m) == m.connected

\* leaveVoiceChannel(): the channel is left; when it throws it was invoked
\* but did not complete.
leaveVoiceChannel(m, throws) ==
    IF throws THEN [m EXCEPT !.leaveInvoked = TRUE]
    ELSE [m EXCEPT !.leaveInvoked = TRUE, !.channel = NoChannel]

\* disconnect(): the transport is closed.
disconnect(m) ==
    [m EXCEPT !.disconnectInvoked = TRUE, !.connected = FALSE]

\* joinVoiceChannel(ch) as issued: the manager is asked to join ch.
joinRequested(m, ch) == [m EXCEPT !.channel = ch]

\* joinVoiceChannel(ch) resolved: the manager reports itself connected
\* unless it was disconnected while the join was pending.
joinResolved(m) == [m EXCEPT !.connected = ~m.disconnectInvoked]

\* The muted flag a manager reports before anyone has toggled it: the
\* default media state (part_005 lines 601-602).
MutedAtStart == TRUE

\* toggleAudio(enabled), on the manager's muted flag: toggleAudio(false)
\* mutes and toggleAudio(true) unmutes (VOICE_INTEGRATION_GUIDE.md lines
\* 130-131).
toggleAudio(muted, enabled) == ~enabled

\* --------------------------------------------------------- CallStateManager
\* The singleton's fields as one value, so that a handler which calls several
\* of its methods in a row is one step.
Cur == [vm |-> voiceManager, cs |-> callState, mgr |-> mgr, n |-> created,
        threw |-> FALSE, ls |-> listeners, dl |-> delivered, sh |-> shared]

\* notifyListeners (part_011 lines 183-192): one copy of the call state is
\* made and every subscribed listener is called with that same object.
notifyListeners(S) ==
    [S EXCEPT !.dl = [l \in Listeners |-> IF l \in S.ls THEN S.cs ELSE S.dl[l]],
              !.sh = S.ls]

getOrCreateManager(S) ==
    IF S.vm = NoManager
    THEN [S EXCEPT !.vm = S.n + 1, !.n = S.n + 1, !.mgr[S.n + 1] = FreshManager]
    ELSE S

startCall(S, channelId, serverId, channelName, callType, t) ==
    notifyListeners(
        [S EXCEPT !.cs = [isMinimized |-> FALSE, channelId |-> channelId,
                          serverId |-> serverId, channelName |-> channelName,
                          startTime |-> t, callType |-> callType]])

minimizeCall(S) ==
    IF S.cs # NULL THEN notifyListeners([S EXCEPT !.cs.isMinimized = TRUE])
    ELSE S

\* maximizeCall rebuilding the state the way startCall does, with a new
\* startTime.
maximizeCallRestarts(S) ==
    IF S.cs # NULL
    THEN notifyListeners([S EXCEPT !.cs.isMinimized = FALSE,
                                   !.cs.startTime = now])
    ELSE S

maximizeCall(S) ==
    IF S.cs # NULL THEN notifyListeners([S EXCEPT !.cs.isMinimized = FALSE])
    ELSE S

updateCallType(S, callType) ==
    IF S.cs # NULL THEN notifyListeners([S EXCEPT !.cs.callType = callType])
    ELSE S

\* The outcomes of endCall's try block: both calls return, the first throws
\* (the second is then skipped), or the second throws.
Teardowns == {"ok", "leaveThrows", "disconnectThrows"}

teardown(m, out) ==
    IF out = "leaveThrows" THEN leaveVoiceChannel(m, TRUE)
    ELSE disconnect(leaveVoiceChannel(m, FALSE))

\* endCall that forgets `this.voiceManager = null`.
endCallKeepsManager(S, out) ==
    LET S1 == IF S.vm # NoManager
              THEN [S EXCEPT !.mgr[S.vm] = teardown(S.mgr[S.vm], out)]
              ELSE S
    IN notifyListeners([S1 EXCEPT !.cs = NULL])

endCall(S, out) ==
    LET S1 == IF S.vm # NoManager
              THEN [S EXCEPT !.mgr[S.vm] = teardown(S.mgr[S.vm], out),
                             !.vm = NoManager]
              ELSE S
    IN notifyListeners([S1 EXCEPT !.cs = NULL])

hasActiveCall(S) ==
    S.cs # NULL /\ S.vm # NoManager /\ isConnected(S.mgr[S.vm])

\* isInChannel with the comparison inverted.
isInChannelInverted(S, channelId) ==
    S.cs # NULL /\ S.cs.channelId # channelId /\ hasActiveCall(S)

isInChannel(S, channelId) ==
    S.cs # NULL /\ S.cs.channelId = channelId /\ hasActiveCall(S)

\* Write a singleton value back to the variables.
Install(S) ==
    /\ voiceManager' = S.vm
    /\ callState' = S.cs
    /\ mgr' = S.mgr
    /\ created' = S.n
    /\ threw' = S.threw
    /\ listeners' = S.ls
    /\ delivered' = S.dl
    /\ shared' = S.sh

\* ------------------------------------------------------------ useVoiceCall
\* joinCall up to its first await (lines 117-153): the short-circuit when
\* already in this channel, else ending a different active call, taking the
\* shared manager and calling initialize.  The callType argument is not read
\* before startCall, so it is drawn there.
JoinCall(p, ch, out) ==
    /\ pc[p] = "idle"
    /\ IF isInChannel(Cur, ch)
       THEN /\ out = "ok"
            /\ Install(maximizeCall(Cur))
            /\ UNCHANGED <<pc, jm, jch>>
            /\ last' = "joinCall.maximize"
       ELSE LET S1 == IF hasActiveCall(Cur) THEN endCall(Cur, out) ELSE Cur
                S2 == getOrCreateManager(S1)
            IN /\ hasActiveCall(Cur) \/ out = "ok"
               /\ S1.vm # NoManager \/ S1.n < MaxManagers
               /\ Install(S2)
               /\ pc' = [pc EXCEPT ![p] = "initialize"]
               /\ jm' = [jm EXCEPT ![p] = S2.vm]
               /\ jch' = [jch EXCEPT ![p] = ch]
               /\ last' = "joinCall"
    /\ UNCHANGED now
    /\ UNCHANGED inviteVars
    /\ UNCHANGED otherVars

\* `await voiceManager.initialize(...)` resolves (line 153): the next
\* statement issues joinVoiceChannel(channelId) on the local manager and
\* suspends again.
InitializeResolved(p) ==
    /\ pc[p] = "initialize"
    /\ Install([Cur EXCEPT !.mgr[jm[p]] = joinRequested(@, jch[p])])
    /\ pc' = [pc EXCEPT ![p] = "join"]
    /\ last' = "joinVoiceChannel"
    /\ UNCHANGED <<jm, jch, now>>
    /\ UNCHANGED inviteVars
    /\ UNCHANGED otherVars

\* `await voiceManager.joinVoiceChannel(channelId)` resolves (line 154):
\* startCall installs the ActiveCallState (line 157).
JoinResolved(p, callType) ==
    /\ pc[p] = "join"
    /\ Install(startCall([Cur EXCEPT !.mgr[jm[p]] = joinResolved(@)],
                         jch[p], ServerOf(jch[p]), NameOf(jch[p]),
                         callType, now))
    /\ pc' = [pc EXCEPT ![p] = "idle"]
    /\ jm' = [jm EXCEPT ![p] = NoManager]
    /\ jch' = [jch EXCEPT ![p] = NoChannel]
    /\ last' = "startCall"
    /\ UNCHANGED now
    /\ UNCHANGED inviteVars
    /\ UNCHANGED otherVars

\* Either await rejects: the catch block (lines 165-170) ends whatever call
\* the singleton holds.
JoinRejected(p, out) ==
    /\ pc[p] \in {"initialize", "join"}
    /\ voiceManager # NoManager \/ out = "ok"
    /\ Install(endCall(Cur, out))
    /\ pc' = [pc EXCEPT ![p] = "idle"]
    /\ jm' = [jm EXCEPT ![p] = NoManager]
    /\ jch' = [jch EXCEPT ![p] = NoChannel]
    /\ last' = "joinCall.catch"
    /\ UNCHANGED now
    /\ UNCHANGED inviteVars
    /\ UNCHANGED otherVars

\* What `last` records of an endCall invocation: whether there was anything
\* to end.
EndLabel ==
    IF callState = NULL /\ voiceManager = NoManager
    THEN "endCall.idle" ELSE "endCall"

EndOps == {"endCall", "endCall.idle", "leaveCall", "handleEndCall"}

\* leaveCall (lines 174-183): endCall, then the hook's local state is reset.
\* A joinCall that is suspended is left to run on.
LeaveCall(out) ==
    /\ voiceManager # NoManager \/ out = "ok"
    /\ Install(endCall(Cur, out))
    /\ last' = "leaveCall"
    /\ UNCHANGED <<pc, jm, jch, now>>
    /\ UNCHANGED inviteVars
    /\ UNCHANGED otherVars

\* MinimizedCallBar's end button; the bar renders only while minimized.
HandleEndCall(out) ==
    /\ callState # NULL
    /\ callState.isMinimized
    /\ voiceManager # NoManager \/ out = "ok"
    /\ Install(endCall(Cur, out))
    /\ last' = "handleEndCall"
    /\ UNCHANGED <<pc, jm, jch, now>>
    /\ UNCHANGED inviteVars
    /\ UNCHANGED otherVars

MinimizeCall ==
    /\ Install(minimizeCall(Cur))
    /\ last' = "minimizeCall"
    /\ UNCHANGED <<pc, jm, jch, now>>
    /\ UNCHANGED inviteVars
    /\ UNCHANGED otherVars

MaximizeCall ==
    /\ Install(maximizeCall(Cur))
    /\ last' = "maximizeCall"
    /\ UNCHANGED <<pc, jm, jch, now>>
    /\ UNCHANGED inviteVars
    /\ UNCHANGED otherVars

\* toggleVideo turning the camera on (lines 206-218): with a manager at hand
\* the call becomes a video call.
ToggleVideoOn ==
    /\ voiceManager # NoManager
    /\ Install(updateCallType(Cur, "video"))
    /\ last' = "updateCallType"
    /\ UNCHANGED <<pc, jm, jch, now>>
    /\ UNCHANGED inviteVars
    /\ UNCHANGED otherVars

\* The signaling transport of the shared manager drops, or comes back.  Only
\* the shared manager's connectivity is ever read (hasActiveCall), and a
\* manager the singleton has dropped is never taken up again.
ConnectionLost ==
    /\ voiceManager # NoManager
    /\ mgr[voiceManager].connected
    /\ mgr' = [mgr EXCEPT ![voiceManager].connected = FALSE]
    /\ last' = "connectionLost"
    /\ UNCHANGED <<voiceManager, callState, created, threw, pc, jm, jch, now,
                   listenerVars>>
    /\ UNCHANGED inviteVars
    /\ UNCHANGED otherVars

ConnectionRestored ==
    /\ voiceManager # NoManager
    /\ ~mgr[voiceManager].connected
    /\ mgr[voiceManager].channel # NoChannel
    /\ mgr' = [mgr EXCEPT ![voiceManager].connected = TRUE]
    /\ last' = "connectionRestored"
    /\ UNCHANGED <<voiceManager, callState, created, threw, pc, jm, jch, now,
                   listenerVars>>
    /\ UNCHANGED inviteVars
    /\ UNCHANGED otherVars

\* Time passes.
CallTick ==
    /\ now < MaxCallTime
    /\ now' = now + 1
    /\ last' = "tick"
    /\ UNCHANGED callVars
    /\ UNCHANGED otherVars
    /\ UNCHANGED inviteVars
    /\ UNCHANGED otherVars

\* ------------------------------------- CallStateManager, called directly
\* The singleton's public methods under an arbitrary caller.
ApiGetOrCreateManager ==
    /\ voiceManager # NoManager \/ created < MaxManagers
    /\ Install(getOrCreateManager(Cur))
    /\ last' = "getOrCreateManager"
    /\ UNCHANGED <<pc, jm, jch, now>>
    /\ UNCHANGED inviteVars
    /\ UNCHANGED otherVars

\* The caller that took the shared manager joins a channel on it.
ApiManagerJoins(ch) ==
    /\ voiceManager # NoManager
    /\ mgr' = [mgr EXCEPT ![voiceManager] = joinResolved(joinRequested(@, ch))]
    /\ last' = "joinVoiceChannel"
    /\ UNCHANGED <<voiceManager, callState, created, threw, pc, jm, jch, now,
                   listenerVars>>
    /\ UNCHANGED inviteVars
    /\ UNCHANGED otherVars

ApiStartCall(ch, callType) ==
    /\ Install(startCall(Cur, ch, ServerOf(ch), NameOf(ch), callType, now))
    /\ last' = "startCall"
    /\ UNCHANGED <<pc, jm, jch, now>>
    /\ UNCHANGED inviteVars
    /\ UNCHANGED otherVars

ApiUpdateCallType(callType) ==
    /\ Install(updateCallType(Cur, callType))
    /\ last' = "updateCallType"
    /\ UNCHANGED <<pc, jm, jch, now>>
    /\ UNCHANGED inviteVars
    /\ UNCHANGED otherVars

ApiEndCall(out) ==
    /\ voiceManager # NoManager \/ out = "ok"
    /\ Install(endCall(Cur, out))
    /\ last' = EndLabel
    /\ UNCHANGED <<pc, jm, jch, now>>
    /\ UNCHANGED inviteVars
    /\ UNCHANGED otherVars

Init ==
    /\ voiceManager = NoManager
    /\ callState = NULL
    /\ mgr = [m \in ManagerIds |-> NotCreated]
    /\ created = 0
    /\ threw = FALSE
    /\ pc = [p \in Surfaces |-> "idle"]
    /\ jm = [p \in Surfaces |-> NoManager]
    /\ jch = [p \in Surfaces |-> NoChannel]
    /\ now = 0
    /\ last = "init"
    /\ invites = <<>>
    /\ timerMap = {}
    /\ timeouts = {}
    /\ received = 0
    /\ isInitialized = FALSE
    /\ permissionError = NoError
    /\ activeCall = NoChannel
    /\ isConnecting = FALSE
    /\ connectionError = NoError
    /\ vpc = [p \in Surfaces |-> "idle"]
    /\ vch = [p \in Surfaces |-> NoChannel]
    /\ tried = [p \in Surfaces |-> <<>>]
    /\ pmChannel = NoChannel
    /\ failure = NULL
    /\ chInitialized = FALSE
    /\ chPermissionError = NoError
    /\ status = [c \in Peers |-> "new"]
    /\ inbox = [c \in Peers |-> <<>>]
    /\ peerConnections = [c \in Peers |-> [q \in Peers |-> NoLink]]
    /\ openPcs = [c \in Peers |-> {}]
    /\ candidate = [c \in Peers |-> [q \in Peers |-> "none"]]
    /\ mediaMuted = [m \in ManagerIds |-> MutedAtStart]
    /\ pmCreated = FALSE
    /\ pmMuted = MutedAtStart
    /\ localMuted = MutedAtStart
    /\ listeners = {}
    /\ delivered = [l \in Listeners |-> Undelivered]
    /\ shared = {}
    /\ pParticipants = <<>>
    /\ videoTiles = [t \in TileIds |-> NoMember]
    /\ participants = <<>>
    /\ chListening = FALSE
    /\ rosterSeen = <<>>
    /\ socket = NoSocket
    /\ liveSockets = {}
    /\ joinedSockets = {}
    /\ socketsMade = 0
    /\ awaiting = 0
    /\ localStream = NoStream
    /\ liveStreams = {}
    /\ svcPeerConnections = [q \in RemotePeers |-> NoLink]
    /\ orphans = 0
    /\ present = {}
    /\ pending = {}
    /\ disconnected = FALSE
    /\ chChannelId = 1
    /\ chJoin = NoChannel
    /\ chJoinPc = "idle"
    /\ barMuted = MutedAtStart
    /\ barSeen = NULL

Next ==
    \/ \E p \in Surfaces, ch \in Channels, out \in Teardowns :
          JoinCall(p, ch, out)
    \/ \E p \in Surfaces : InitializeResolved(p)
    \/ \E p \in Surfaces, t \in CallTypes : JoinResolved(p, t)
    \/ \E p \in Surfaces, out \in Teardowns : JoinRejected(p, out)
    \/ \E out \in Teardowns : LeaveCall(out)
    \/ \E out \in Teardowns : HandleEndCall(out)
    \/ MinimizeCall
    \/ MaximizeCall
    \/ ToggleVideoOn
    \/ ConnectionLost
    \/ ConnectionRestored
    \/ CallTick

Spec == Init /\ [][Next]_vars

NextManager ==
    \/ ApiGetOrCreateManager
    \/ \E ch \in Channels : ApiManagerJoins(ch)
    \/ \E ch \in Channels, t \in CallTypes : ApiStartCall(ch, t)
    \/ MinimizeCall
    \/ MaximizeCall
    \/ \E t \in CallTypes : ApiUpdateCallType(t)
    \/ \E out \in Teardowns : ApiEndCall(out)
    \/ ConnectionLost
    \/ ConnectionRestored
    \/ CallTick

SpecManager == Init /\ [][NextManager]_vars

\* ----------------------------------------------- useVoiceInviteNotifications
\* An invite as the hook keeps it.  Of the event's fields only the ones the
\* hook computes with are kept; the names, avatar and timestamp it merely
\* passes on to the toast are left out.  The id is the template string
\* `${channelId}-${inviterUserId}-${Date.now()}`, kept as its three parts.
InviteId(ch, u, t) == <<ch, u, t>>

NewInvite(ch, u, t, ttl) ==
    [id |-> InviteId(ch, u, t), channelId |-> ch, inviterUserId |-> u,
     expiresAt |-> t + ttl]

SamePair(a, b) ==
    a.channelId = b.channelId /\ a.inviterUserId = b.inviterUserId

\* The updater handed to setInvites (lines 414-428) without its duplicate
\* check.
addInviteNoDedupe(prev, inv) == Append(prev, inv)

\* The updater handed to setInvites (lines 414-428).
addInvite(prev, inv) ==
    IF \E k \in 1 .. Len(prev) : SamePair(prev[k], inv)
    THEN [k \in 1 .. Len(prev) |->
             IF SamePair(prev[k], inv)
             THEN [prev[k] EXCEPT !.expiresAt = inv.expiresAt]
             ELSE prev[k]]
    ELSE Append(prev, inv)

\* prev.filter(inv => inv.id !== inviteId)
RECURSIVE withoutId(_, _)
withoutId(list, id) ==
    IF list = <<>> THEN <<>>
    ELSE IF Head(list).id = id THEN withoutId(Tail(list), id)
    ELSE <<Head(list)>> \o withoutId(Tail(list), id)

\* The hook's state as one value.  A pending timeout is [id, at, held]: the
\* id its callback will clear, when it is due, and whether the Map's entry for
\* that id holds this timer's handle (set() on an id already present replaces
\* the handle, and the timer registered before is then out of the Map's
\* reach).
CurInv == [invites |-> invites, timerMap |-> timerMap, timeouts |-> timeouts]

\* clearInvite (lines 340-349): the invite with that id is filtered out, the
\* timer the Map holds for the id is cleared and its entry deleted.
clearInvite(I, id) ==
    [invites |-> withoutId(I.invites, id),
     timerMap |-> I.timerMap \ {id},
     timeouts |-> {t \in I.timeouts : ~(t.id = id /\ t.held)}]

\* const timer = setTimeout(...); expirationTimersRef.current.set(id, timer)
\* (lines 431-434).
setTimer(I, id, at) ==
    [invites |-> I.invites,
     timerMap |-> I.timerMap \cup {id},
     timeouts |-> {IF t.id = id THEN [t EXCEPT !.held = FALSE] ELSE t :
                      t \in I.timeouts}
                  \cup {[id |-> id, at |-> at, held |-> TRUE]}]

\* forEach(clearTimeout) and clear() on the Map (lines 355-356, 461-462).
clearAllTimers(I) ==
    [invites |-> I.invites,
     timerMap |-> {},
     timeouts |-> {t \in I.timeouts : ~t.held}]

InstallInv(I) ==
    /\ invites' = I.invites
    /\ timerMap' = I.timerMap
    /\ timeouts' = I.timeouts

\* handleVoiceInviteReceived (lines 386-450): the list is updated, and a
\* timer that clears the id computed for this event is registered.
ReceiveInvite(ch, u) ==
    /\ received < MaxReceived
    /\ LET inv == NewInvite(ch, u, now, InviteTTL)
       IN InstallInv(setTimer([CurInv EXCEPT !.invites = addInvite(invites, inv)],
                              inv.id, now + InviteTTL))
    /\ received' = received + 1
    /\ last' = "receive"
    /\ UNCHANGED now
    /\ UNCHANGED callVars
    /\ UNCHANGED otherVars

\* A setTimeout callback runs (lines 431-433): clearInvite(inviteId).
TimerFires(t) ==
    /\ t \in timeouts
    /\ t.at <= now
    /\ InstallInv(clearInvite([CurInv EXCEPT !.timeouts = timeouts \ {t}], t.id))
    /\ last' = "expire"
    /\ UNCHANGED <<received, now>>
    /\ UNCHANGED callVars
    /\ UNCHANGED otherVars

\* acceptInvite (lines 360-366) from the toast of a pending invite: onAccept
\* is handed the invite, then clearInvite.
AcceptInvite(k) ==
    /\ k \in 1 .. Len(invites)
    /\ InstallInv(clearInvite(CurInv, invites[k].id))
    /\ last' = "accept"
    /\ UNCHANGED <<received, now>>
    /\ UNCHANGED callVars
    /\ UNCHANGED otherVars

\* declineInvite (lines 369-375): onDecline, then clearInvite.
DeclineInvite(k) ==
    /\ k \in 1 .. Len(invites)
    /\ InstallInv(clearInvite(CurInv, invites[k].id))
    /\ last' = "decline"
    /\ UNCHANGED <<received, now>>
    /\ UNCHANGED callVars
    /\ UNCHANGED otherVars

\* The toast's close button: clearInvite(invite.id).
CloseInvite(k) ==
    /\ k \in 1 .. Len(invites)
    /\ InstallInv(clearInvite(CurInv, invites[k].id))
    /\ last' = "close"
    /\ UNCHANGED <<received, now>>
    /\ UNCHANGED callVars
    /\ UNCHANGED otherVars

\* clearAllInvites (lines 351-357).
ClearAllInvites ==
    /\ invites # <<>>
    /\ InstallInv([clearAllTimers(CurInv) EXCEPT !.invites = <<>>])
    /\ last' = "clearAll"
    /\ UNCHANGED <<received, now>>
    /\ UNCHANGED callVars
    /\ UNCHANGED otherVars

\* The socket effect re-runs (userId changes): its cleanup (lines 455-463)
\* clears every timer the Map holds and empties the Map; the list is kept.
EffectRerun ==
    /\ timerMap # {}
    /\ InstallInv(clearAllTimers(CurInv))
    /\ last' = "effectCleanup"
    /\ UNCHANGED <<received, now>>
    /\ UNCHANGED callVars
    /\ UNCHANGED otherVars

\* Time passes; a timer that is due runs before the clock moves on.
InviteTick ==
    /\ now < MaxTime
    /\ \A t \in timeouts : t.at > now
    /\ now' = now + 1
    /\ last' = "tick"
    /\ UNCHANGED inviteVars
    /\ UNCHANGED otherVars
    /\ UNCHANGED callVars
    /\ UNCHANGED otherVars

NextInvite ==
    \/ \E ch \in Channels, u \in Inviters : ReceiveInvite(ch, u)
    \/ \E t \in timeouts : TimerFires(t)
    \/ \E k \in 1 .. MaxReceived : AcceptInvite(k)
    \/ \E k \in 1 .. MaxReceived : DeclineInvite(k)
    \/ \E k \in 1 .. MaxReceived : CloseInvite(k)
    \/ ClearAllInvites
    \/ EffectRerun
    \/ InviteTick

SpecInvite == Init /\ [][NextInvite]_vars

\* ----------------------------------------------------- device acquisition
\* The errors getUserMedia rejects with, as far as the callers tell them
\* apart: by name, and by message where the message is shown.
ErrorNames ==
    {"NotAllowedError", "NotFoundError", "NotReadableError",
     "OverconstrainedError", "AbortError"}
ErrorMessages == {"", "getUserMedia failed"}
MediaErrors == [name : ErrorNames, message : ErrorMessages]

\* The messages the components set.
DeniedMessage ==
    "Camera and microphone access denied. Please allow permissions and try again."
NoDeviceMessage ==
    "No camera or microphone found. Please connect a device and try again."
BusyMessage ==
    "Camera or microphone is already in use by another application."
ConstraintsMessage ==
    "Camera/microphone constraints could not be satisfied. Try refreshing the page."
AudioOnlyMessage == "Video permission denied. Audio-only mode active."
VideoOnlyMessage == "Audio permission denied. Video-only mode active."
JoinFailedMessage == "Failed to join voice channel"

\* `Media access error: ${error?.message || 'Unknown error'}`
mediaAccessError(error) ==
    "Media access error: " \o
        (IF error.message = "" THEN "Unknown error" ELSE error.message)

\* The catch block of setupManagerAndListeners: the message by error.name.
setupErrorMessage(error) ==
    IF error.name = "NotAllowedError" THEN DeniedMessage
    ELSE IF error.name = "NotFoundError" THEN NoDeviceMessage
    ELSE IF error.name = "NotReadableError" THEN BusyMessage
    ELSE IF error.name = "OverconstrainedError" THEN ConstraintsMessage
    ELSE mediaAccessError(error)

\* The catch block of handleRetryPermissions.
retryErrorMessage(error) == mediaAccessError(error)

\* initializeManager's last catch block: videoError is not looked at.
allFailedMessage(videoError) == DeniedMessage

\* The strategy initializeManager turns to when one has failed, with
\* "none" after the last.
nextStrategySkipsAudio(s) ==
    IF s = "full" THEN "video" ELSE "none"

nextStrategy(s) ==
    IF s = "full" THEN "audio"
    ELSE IF s = "audio" THEN "video"
    ELSE "none"

\* What a strategy that succeeded leaves in permissionError.
successMessage(s, prev) ==
    IF s = "audio" THEN AudioOnlyMessage
    ELSE IF s = "video" THEN VideoOnlyMessage
    ELSE prev

\* VoiceCallProvider.joinCall (part_005 lines 789-855) up to its first
\* await: the errors are cleared, a previous call is left, and either
\* initializeManager starts with the combined request or, with permissions
\* already held, activeCall is set and joinVoiceChannel is issued.
ProviderJoinCall(p, ch) ==
    /\ vpc[p] = "idle"
    /\ connectionError' = NoError
    /\ isConnecting' = TRUE
    /\ vch' = [vch EXCEPT ![p] = ch]
    /\ tried' = [tried EXCEPT ![p] = <<>>]
    /\ IF ~isInitialized
       THEN /\ permissionError' = NoError
            /\ vpc' = [vpc EXCEPT ![p] = "full"]
            /\ pmChannel' = IF activeCall # NoChannel THEN NoChannel ELSE pmChannel
            /\ UNCHANGED activeCall
       ELSE /\ activeCall' = ch
            /\ pmChannel' = ch
            /\ vpc' = [vpc EXCEPT ![p] = "joining"]
            /\ UNCHANGED permissionError
    /\ failure' = NULL
    /\ last' = "provider.joinCall"
    /\ UNCHANGED <<isInitialized, channelVars>>
    /\ pmCreated' = TRUE
    /\ UNCHANGED <<mediaMuted, pmMuted, localMuted>>
    /\ UNCHANGED <<callVars, inviteVars, voiceVars, now>>
    /\ IF activeCall # NoChannel
       THEN pParticipants' = <<>> /\ videoTiles' = [t \in TileIds |-> NoMember]
       ELSE UNCHANGED tileVars
    /\ UNCHANGED afterTileVars

\* The request of the strategy initializeManager is waiting on resolves:
\* permissions are held, initializeManager returns true and joinCall goes on
\* to set activeCall and to issue joinVoiceChannel.
StrategySucceeds(p) ==
    /\ vpc[p] \in {"full", "audio", "video"}
    /\ tried' = [tried EXCEPT ![p] = Append(@, [strategy |-> vpc[p], ok |-> TRUE])]
    /\ isInitialized' = TRUE
    /\ permissionError' = successMessage(vpc[p], permissionError)
    /\ activeCall' = vch[p]
    /\ pmChannel' = vch[p]
    /\ vpc' = [vpc EXCEPT ![p] = "joining"]
    /\ failure' = NULL
    /\ last' = "initializeManager.ok"
    /\ UNCHANGED <<isConnecting, connectionError, vch, channelVars>>
    /\ localMuted' = pmMuted
    /\ UNCHANGED <<mediaMuted, pmCreated, pmMuted>>
    /\ UNCHANGED <<callVars, inviteVars, voiceVars, now>>
    /\ UNCHANGED laterVars

\* The combined or the audio-only request rejects (the catch blocks of lines
\* 756 and 767, which do not look at the error): the next strategy is
\* requested.
StrategyFails(p) ==
    /\ vpc[p] \in {"full", "audio", "video"}
    /\ nextStrategy(vpc[p]) # "none"
    /\ tried' = [tried EXCEPT ![p] = Append(@, [strategy |-> vpc[p], ok |-> FALSE])]
    /\ vpc' = [vpc EXCEPT ![p] = nextStrategy(vpc[p])]
    /\ failure' = NULL
    /\ last' = "initializeManager.fallback"
    /\ UNCHANGED <<isInitialized, permissionError, activeCall, isConnecting,
                   connectionError, vch, pmChannel, channelVars>>
    /\ UNCHANGED <<callVars, inviteVars, voiceVars, muteVars, now>>
    /\ UNCHANGED laterVars

\* The last request rejects with `error` (lines 776-783): the error message
\* is set, initializeManager returns false and joinCall returns (lines
\* 822-826).
LastStrategyFails(p, error) ==
    /\ vpc[p] \in {"full", "audio", "video"}
    /\ nextStrategy(vpc[p]) = "none"
    /\ tried' = [tried EXCEPT ![p] = Append(@, [strategy |-> vpc[p], ok |-> FALSE])]
    /\ vpc' = [vpc EXCEPT ![p] = "idle"]
    /\ permissionError' = allFailedMessage(error)
    /\ isConnecting' = FALSE
    /\ failure' = error
    /\ last' = "initializeManager.failed"
    /\ vch' = [vch EXCEPT ![p] = NoChannel]
    /\ UNCHANGED <<isInitialized, activeCall, connectionError, pmChannel,
                   channelVars>>
    /\ UNCHANGED <<callVars, inviteVars, voiceVars, muteVars, now>>
    /\ UNCHANGED laterVars

\* joinVoiceChannel resolves (lines 842-846).
ProviderJoinResolved(p) ==
    /\ vpc[p] = "joining"
    /\ vpc' = [vpc EXCEPT ![p] = "idle"]
    /\ isConnecting' = FALSE
    /\ failure' = NULL
    /\ last' = "provider.joined"
    /\ vch' = [vch EXCEPT ![p] = NoChannel]
    /\ UNCHANGED <<isInitialized, permissionError, activeCall, connectionError,
                   tried, pmChannel, channelVars>>
    /\ localMuted' = pmMuted
    /\ UNCHANGED <<mediaMuted, pmCreated, pmMuted>>
    /\ UNCHANGED <<callVars, inviteVars, voiceVars, now>>
    /\ UNCHANGED laterVars

\* joinVoiceChannel rejects: the catch block (lines 847-852). The manager is
\* then not in the channel this invocation asked for.
ProviderJoinRejected(p) ==
    /\ vpc[p] = "joining"
    /\ vpc' = [vpc EXCEPT ![p] = "idle"]
    /\ connectionError' = JoinFailedMessage
    /\ activeCall' = NoChannel
    /\ isConnecting' = FALSE
    /\ failure' = NULL
    /\ last' = "provider.joinFailed"
    /\ vch' = [vch EXCEPT ![p] = NoChannel]
    /\ pmChannel' = IF pmChannel = vch[p] THEN NoChannel ELSE pmChannel
    /\ UNCHANGED <<isInitialized, permissionError, tried, channelVars>>
    /\ UNCHANGED <<callVars, inviteVars, voiceVars, muteVars, now>>
    /\ UNCHANGED laterVars

\* VoiceCallProvider.leaveCall (lines 858-872).
ProviderLeaveCall ==
    /\ activeCall # NoChannel \/ pmChannel # NoChannel
    /\ pmChannel' = NoChannel
    /\ activeCall' = NoChannel
    /\ connectionError' = NoError
    /\ failure' = NULL
    /\ last' = "provider.leaveCall"
    /\ UNCHANGED <<isInitialized, permissionError, isConnecting, vpc, vch, tried,
                   channelVars>>
    /\ UNCHANGED <<callVars, inviteVars, voiceVars, muteVars, now>>
    /\ pParticipants' = <<>>
    /\ videoTiles' = [t \in TileIds |-> NoMember]
    /\ UNCHANGED afterTileVars

\* EnhancedVoiceChannel.setupManagerAndListeners (part_004 lines 183-216):
\* manager.initialize(true, true) resolves, or rejects with `error`.
SetupManagerAndListeners(ok, error) ==
    /\ ~chInitialized
    /\ IF ok
       THEN /\ chInitialized' = TRUE
            /\ chPermissionError' = NoError
            /\ failure' = NULL
            /\ last' = "setup.ok"
       ELSE /\ chPermissionError' = setupErrorMessage(error)
            /\ failure' = error
            /\ last' = "setup.failed"
            /\ UNCHANGED chInitialized
    /\ UNCHANGED providerVars
    /\ UNCHANGED <<callVars, inviteVars, voiceVars, muteVars, now>>
    /\ chListening' = (chListening \/ ok)
    /\ UNCHANGED <<tileVars, participants, rosterSeen, serviceVars, endVars>>

\* EnhancedVoiceChannel.handleRetryPermissions (part_004 lines 411-428),
\* the button of the permission-error screen.
HandleRetryPermissions(ok, error) ==
    /\ chPermissionError # NoError
    /\ IF ok
       THEN /\ chInitialized' = TRUE
            /\ chPermissionError' = NoError
            /\ failure' = NULL
            /\ last' = "retry.ok"
       ELSE /\ chPermissionError' = retryErrorMessage(error)
            /\ failure' = error
            /\ last' = "retry.failed"
            /\ UNCHANGED chInitialized
    /\ UNCHANGED providerVars
    /\ UNCHANGED <<callVars, inviteVars, voiceVars, muteVars, now>>
    /\ UNCHANGED laterVars

NextProvider ==
    \/ \E p \in Surfaces, ch \in Channels : ProviderJoinCall(p, ch)
    \/ \E p \in Surfaces : StrategySucceeds(p)
    \/ \E p \in Surfaces : StrategyFails(p)
    \/ \E p \in Surfaces, error \in MediaErrors : LastStrategyFails(p, error)
    \/ \E p \in Surfaces : ProviderJoinResolved(p)
    \/ \E p \in Surfaces : ProviderJoinRejected(p)
    \/ ProviderLeaveCall

SpecProvider == Init /\ [][NextProvider]_vars

NextDevices ==
    \/ NextProvider
    \/ \E ok \in BOOLEAN, error \in MediaErrors : SetupManagerAndListeners(ok, error)
    \/ \E ok \in BOOLEAN, error \in MediaErrors : HandleRetryPermissions(ok, error)

SpecDevices == Init /\ [][NextDevices]_vars

\* ------------------------------------------------------------ VoiceService
\* One VoiceService per client, each with its socket to the signalling
\* server.  The server is not part of the sources: it is taken to announce a
\* client that joins the channel to the clients already in it
\* ('user-joined'), to relay 'webrtc-offer', 'webrtc-answer' and
\* 'webrtc-ice-candidate' to the client they are addressed to, and to
\* announce a client whose socket has gone ('user-disconnected').  Events
\* reach a client in the order the server emitted them.
Msg(type, from) == [type |-> type, from |-> from]

emit(box, to, msg) ==
    IF status[to] = "joined" THEN [box EXCEPT ![to] = Append(@, msg)] ELSE box

broadcast(box, from, type) ==
    [c \in Peers |->
        IF c # from /\ status[c] = "joined"
        THEN Append(box[c], Msg(type, from)) ELSE box[c]]

HeadIs(c, type) == inbox[c] # <<>> /\ Head(inbox[c]).type = type

\* An RTCPeerConnection as the service drives it: whether it was created as
\* the initiator, and how far its local and remote descriptions have come.
NewPeerConnection(isInitiator) ==
    [initiator |-> isInitiator, local |-> "none", remote |-> "none"]

\* createPeerConnection that does not register the connection.
createPeerConnectionUnregistered(pcs, targetSocketId, isInitiator) == pcs

\* createPeerConnection (lines 104-141): the connection is registered under
\* the peer's socket id.
createPeerConnection(pcs, targetSocketId, isInitiator) ==
    [pcs EXCEPT ![targetSocketId] = NewPeerConnection(isInitiator)]

\* The 'user-disconnected' handler that removes only a connection whose
\* negotiation has completed.
removePeerIfConnected(pcs, socketId) ==
    IF pcs[socketId] # NoLink /\ pcs[socketId].remote = "set"
    THEN [pcs EXCEPT ![socketId] = NoLink] ELSE pcs

\* The 'user-disconnected' handler's registry update (lines 88-92).
removePeer(pcs, socketId) ==
    IF pcs[socketId] # NoLink THEN [pcs EXCEPT ![socketId] = NoLink] ELSE pcs

\* What the 'webrtc-ice-candidate' handler (lines 78-84) does with a
\* candidate: without a registered connection nothing, otherwise
\* addIceCandidate at once, which a connection without a remote description
\* rejects; either way the candidate is lost.
candidateFate(pcs, from) ==
    IF pcs[from] = NoLink THEN "lost"
    ELSE IF pcs[from].remote = "none" THEN "lost"
    ELSE "applied"

\* connect() and joinChannel() (lines 19-45).  Socket ids are arbitrary, so
\* the clients are numbered in the order they join.
VsJoin(c) ==
    /\ status[c] = "new"
    /\ \A d \in Peers : d < c => status[d] # "new"
    /\ status' = [status EXCEPT ![c] = "joined"]
    /\ inbox' = broadcast(inbox, c, "user-joined")
    /\ last' = "vs.join"
    /\ UNCHANGED <<peerConnections, openPcs, candidate>>
    /\ UNCHANGED <<callVars, inviteVars, deviceVars, muteVars, now>>
    /\ UNCHANGED laterVars

\* 'user-joined' (lines 53-57).
OnUserJoined(c) ==
    /\ HeadIs(c, "user-joined")
    /\ LET q == Head(inbox[c]).from
       IN /\ peerConnections' =
                [peerConnections EXCEPT ![c] = createPeerConnection(@, q, TRUE)]
          /\ openPcs' = [openPcs EXCEPT ![c] = @ \cup {q}]
    /\ inbox' = [inbox EXCEPT ![c] = Tail(@)]
    /\ last' = "vs.userJoined"
    /\ UNCHANGED <<status, candidate>>
    /\ UNCHANGED <<callVars, inviteVars, deviceVars, muteVars, now>>
    /\ UNCHANGED laterVars

\* onnegotiationneeded of an initiator's connection (lines 133-135):
\* createOffer and setLocalDescription are under way.
NegotiationNeeded(c, q) ==
    /\ peerConnections[c][q] # NoLink
    /\ peerConnections[c][q].initiator
    /\ peerConnections[c][q].local = "none"
    /\ peerConnections' = [peerConnections EXCEPT ![c][q].local = "pending"]
    /\ last' = "vs.negotiationNeeded"
    /\ UNCHANGED <<status, inbox, openPcs, candidate>>
    /\ UNCHANGED <<callVars, inviteVars, deviceVars, muteVars, now>>
    /\ UNCHANGED laterVars

\* setLocalDescription resolves and the description is sent: the offer
\* (line 136) or the answer (line 67).
LocalDescriptionSet(c, q) ==
    /\ peerConnections[c][q] # NoLink
    /\ peerConnections[c][q].local = "pending"
    /\ peerConnections' = [peerConnections EXCEPT ![c][q].local = "set"]
    /\ inbox' = emit(inbox, q,
                     Msg(IF peerConnections[c][q].initiator
                         THEN "webrtc-offer" ELSE "webrtc-answer", c))
    /\ last' = "vs.descriptionSent"
    /\ UNCHANGED <<status, openPcs, candidate>>
    /\ UNCHANGED <<callVars, inviteVars, deviceVars, muteVars, now>>
    /\ UNCHANGED laterVars

\* createOffer, createAnswer or setLocalDescription rejects: the async
\* callback ends there, nothing catches the rejection.
NegotiationFails(c, q) ==
    /\ peerConnections[c][q] # NoLink
    /\ peerConnections[c][q].local = "pending"
    /\ Cardinality({l \in Peers \X Peers :
                        /\ peerConnections[l[1]][l[2]] # NoLink
                        /\ peerConnections[l[1]][l[2]].local = "rejected"})
           < MaxFailures
    /\ peerConnections' = [peerConnections EXCEPT ![c][q].local = "rejected"]
    /\ last' = "vs.negotiationFailed"
    /\ UNCHANGED <<status, inbox, openPcs, candidate>>
    /\ UNCHANGED <<callVars, inviteVars, deviceVars, muteVars, now>>
    /\ UNCHANGED laterVars

\* 'webrtc-offer' (lines 59-68): the connection is created and given the
\* remote description; the answer is under way.
OnOffer(c) ==
    /\ HeadIs(c, "webrtc-offer")
    /\ LET q == Head(inbox[c]).from
       IN /\ peerConnections' =
                [peerConnections EXCEPT
                    ![c] = [createPeerConnection(@, q, FALSE) EXCEPT
                               ![q].remote = "set", ![q].local = "pending"]]
          /\ openPcs' = [openPcs EXCEPT ![c] = @ \cup {q}]
    /\ inbox' = [inbox EXCEPT ![c] = Tail(@)]
    /\ last' = "vs.offer"
    /\ UNCHANGED <<status, candidate>>
    /\ UNCHANGED <<callVars, inviteVars, deviceVars, muteVars, now>>
    /\ UNCHANGED laterVars

\* 'webrtc-answer' (lines 70-76).
OnAnswer(c) ==
    /\ HeadIs(c, "webrtc-answer")
    /\ LET q == Head(inbox[c]).from
       IN peerConnections' =
             IF peerConnections[c][q] # NoLink
             THEN [peerConnections EXCEPT ![c][q].remote = "set"]
             ELSE peerConnections
    /\ inbox' = [inbox EXCEPT ![c] = Tail(@)]
    /\ last' = "vs.answer"
    /\ UNCHANGED <<status, openPcs, candidate>>
    /\ UNCHANGED <<callVars, inviteVars, deviceVars, muteVars, now>>
    /\ UNCHANGED laterVars

\* onicecandidate (lines 122-129): once the local description is being set
\* the browser reports a candidate, before or after the description itself
\* has been sent.
IceCandidate(c, q) ==
    /\ peerConnections[c][q] # NoLink
    /\ peerConnections[c][q].local \in {"pending", "set"}
    /\ candidate[c][q] = "none"
    /\ Cardinality({l \in Peers \X Peers : candidate[l[1]][l[2]] # "none"})
           < MaxCandidates
    /\ candidate' = [candidate EXCEPT ![c][q] = "sent"]
    /\ inbox' = emit(inbox, q, Msg("webrtc-ice-candidate", c))
    /\ last' = "vs.candidateSent"
    /\ UNCHANGED <<status, peerConnections, openPcs>>
    /\ UNCHANGED <<callVars, inviteVars, deviceVars, muteVars, now>>
    /\ UNCHANGED laterVars

\* 'webrtc-ice-candidate' (lines 78-84).
OnIceCandidate(c) ==
    /\ HeadIs(c, "webrtc-ice-candidate")
    /\ LET q == Head(inbox[c]).from
       IN candidate' = [candidate EXCEPT
                           ![q][c] = candidateFate(peerConnections[c], q)]
    /\ inbox' = [inbox EXCEPT ![c] = Tail(@)]
    /\ last' = "vs.candidate"
    /\ UNCHANGED <<status, peerConnections, openPcs>>
    /\ UNCHANGED <<callVars, inviteVars, deviceVars, muteVars, now>>
    /\ UNCHANGED laterVars

\* 'user-disconnected' (lines 86-96): close() and delete().  The label
\* records how far the connection's negotiation had come.
DisconnectedLabel(conn) ==
    IF conn = NoLink THEN "vs.userDisconnected"
    ELSE "vs.userDisconnected:" \o conn.local \o "/" \o conn.remote

DisconnectedLabels ==
    {DisconnectedLabel(NoLink)} \cup
    {DisconnectedLabel([initiator |-> TRUE, local |-> l, remote |-> r]) :
        l \in {"none", "pending", "set", "rejected"}, r \in {"none", "set"}}

OnUserDisconnected(c) ==
    /\ HeadIs(c, "user-disconnected")
    /\ LET q == Head(inbox[c]).from
       IN /\ peerConnections' =
                [peerConnections EXCEPT ![c] = removePeer(@, q)]
          /\ openPcs' =
                [openPcs EXCEPT
                    ![c] = IF removePeer(peerConnections[c], q)[q] = NoLink
                           THEN @ \ {q} ELSE @]
    /\ inbox' = [inbox EXCEPT ![c] = Tail(@)]
    /\ last' = DisconnectedLabel(peerConnections[c][Head(inbox[c]).from])
    /\ UNCHANGED <<status, candidate>>
    /\ UNCHANGED <<callVars, inviteVars, deviceVars, muteVars, now>>
    /\ UNCHANGED laterVars

\* disconnect() (lines 160-166): every connection is closed, the registry
\* cleared and the socket dropped; the server announces the departure.
VsDisconnect(c) ==
    /\ status[c] = "joined"
    /\ status' = [status EXCEPT ![c] = "left"]
    /\ peerConnections' = [peerConnections EXCEPT ![c] = [q \in Peers |-> NoLink]]
    /\ openPcs' = [openPcs EXCEPT ![c] = {}]
    /\ inbox' = [broadcast(inbox, c, "user-disconnected") EXCEPT ![c] = <<>>]
    /\ last' = "vs.disconnect"
    /\ UNCHANGED candidate
    /\ UNCHANGED <<callVars, inviteVars, deviceVars, muteVars, now>>
    /\ UNCHANGED laterVars

NextVoice ==
    \/ \E c \in Peers : VsJoin(c)
    \/ \E c \in Peers : OnUserJoined(c)
    \/ \E c, q \in Peers : NegotiationNeeded(c, q)
    \/ \E c, q \in Peers : LocalDescriptionSet(c, q)
    \/ \E c, q \in Peers : NegotiationFails(c, q)
    \/ \E c \in Peers : OnOffer(c)
    \/ \E c \in Peers : OnAnswer(c)
    \/ \E c, q \in Peers : IceCandidate(c, q)
    \/ \E c \in Peers : OnIceCandidate(c)
    \/ \E c \in Peers : OnUserDisconnected(c)
    \/ \E c \in Peers : VsDisconnect(c)

SpecVoice == Init /\ [][NextVoice]_vars

\* ------------------------------------------------------------ mute toggle
\* useVoiceCall.toggleMute (part_010 lines 196-203) on manager m, the one the
\* hook holds or else the singleton's: the manager is handed its own muted
\* flag, so that a muted manager is unmuted and an unmuted one muted. With
\* no manager (m = NoManager) nothing happens.
toggleMutePassesNegation(muted) == toggleAudio(muted, ~muted)
toggleMute(muted) == toggleAudio(muted, muted)

ToggleMute(m) ==
    /\ \/ m # NoManager /\ mgr[m].exists
       \/ m = NoManager /\ voiceManager = NoManager
    /\ mediaMuted' = IF m = NoManager THEN mediaMuted
                     ELSE [mediaMuted EXCEPT ![m] = toggleMute(@)]
    /\ last' = "toggleMute"
    /\ UNCHANGED <<pmCreated, pmMuted, localMuted>>
    /\ UNCHANGED <<callVars, inviteVars, deviceVars, voiceVars, now>>
    /\ UNCHANGED laterVars

\* The call page's handleToggleMute (part_001 lines 157-159) calling
\* VoiceCallProvider.toggleAudio (part_005 lines 876-882) with
\* localMediaState.muted: without a manager it returns at once, otherwise
\* the manager is toggled and its media state is copied to localMediaState.
HandleToggleMute ==
    /\ IF ~pmCreated
       THEN UNCHANGED <<pmMuted, localMuted>>
       ELSE /\ pmMuted' = toggleAudio(pmMuted, localMuted)
            /\ localMuted' = pmMuted'
    /\ last' = "provider.toggleAudio"
    /\ UNCHANGED <<mediaMuted, pmCreated>>
    /\ UNCHANGED <<callVars, inviteVars, deviceVars, voiceVars, now>>
    /\ UNCHANGED laterVars

\* The two mute controls next to the operations that start and end calls.
NextMute ==
    \/ ApiGetOrCreateManager
    \/ \E ch \in Channels, t \in CallTypes : ApiStartCall(ch, t)
    \/ ApiEndCall("ok")
    \/ \E m \in ManagerIds \cup {NoManager} : ToggleMute(m)
    \/ \E p \in Surfaces, ch \in Channels : ProviderJoinCall(p, ch)
    \/ \E p \in Surfaces : StrategySucceeds(p)
    \/ \E p \in Surfaces : ProviderJoinResolved(p)
    \/ ProviderLeaveCall
    \/ HandleToggleMute

SpecMute == Init /\ [][NextMute]_vars

\* ----------------------------------------- participants, streams and tiles
\* A member of a roster snapshot, with the media state it declares.
MemberRecords == [id : MemberIds, video : BOOLEAN, screenSharing : BOOLEAN]

\* The snapshots the manager hands to onVoiceRoster: each member of the
\* channel once, in any order.
SnapshotsOf(ids) ==
    {sq \in UNION {[1 .. n -> MemberRecords] : n \in 0 .. NumMembers} :
        /\ \A i \in DOMAIN sq : sq[i].id \in ids
        /\ \A i, j \in DOMAIN sq : sq[i].id = sq[j].id => i = j}

Snapshots == SnapshotsOf(MemberIds)

\* The media state of a media-state event.
MediaStates == [video : BOOLEAN, screenSharing : BOOLEAN]

\* prev.findIndex(p => p.id === id), 0 when there is none.
findIndex(prev, id) ==
    IF \E i \in DOMAIN prev : prev[i].id = id
    THEN CHOOSE i \in DOMAIN prev :
            /\ prev[i].id = id
            /\ \A j \in DOMAIN prev : prev[j].id = id => i <= j
    ELSE 0

\* The participant onStream adds for a peer it does not know (part_004 lines
\* 234-247).
newParticipant(peerId, stream, type) ==
    [id |-> peerId,
     stream |-> IF type = "video" THEN stream ELSE NoStream,
     screenStream |-> IF type = "screen" THEN stream ELSE NoStream,
     video |-> type = "video",
     screenSharing |-> type = "screen"]

\* onStream that appends without looking for the peer.
onStreamAlwaysAppends(prev, stream, peerId, type) ==
    Append(prev, newParticipant(peerId, stream, type))

\* The onStream handler's update of participants (part_004 lines 219-251).
onStream(prev, stream, peerId, type) ==
    LET existingIndex == findIndex(prev, peerId)
    IN IF existingIndex > 0
       THEN IF type = "screen"
            THEN [prev EXCEPT ![existingIndex].screenStream = stream]
            ELSE [prev EXCEPT ![existingIndex].stream = stream]
       ELSE Append(prev, newParticipant(peerId, stream, type))

\* onUserLeft (lines 256-261).
onUserLeft(prev, peerId) == SelectSeq(prev, LAMBDA q : q.id # peerId)

\* The participant a roster member is mapped to (lines 265-276).
voiceParticipant(member) ==
    [id |-> member.id, stream |-> NoStream, screenStream |-> NoStream,
     video |-> member.video, screenSharing |-> member.screenSharing]

\* onVoiceRoster that merges the snapshot into the list it had.
onVoiceRosterKeepsAbsent(prev, members) ==
    LET merged == [k \in DOMAIN members |->
                     LET newP == voiceParticipant(members[k])
                         i == findIndex(prev, newP.id)
                     IN IF i > 0
                        THEN [newP EXCEPT !.stream = prev[i].stream,
                                          !.screenStream = prev[i].screenStream]
                        ELSE newP]
    IN merged \o SelectSeq(prev, LAMBDA q : findIndex(members, q.id) = 0)

\* onVoiceRoster (lines 263-288): the snapshot's members, each with the
\* streams the list held for it.
onVoiceRoster(prev, members) ==
    [k \in DOMAIN members |->
        LET newP == voiceParticipant(members[k])
            i == findIndex(prev, newP.id)
        IN IF i > 0
           THEN [newP EXCEPT !.stream = prev[i].stream,
                             !.screenStream = prev[i].screenStream]
           ELSE newP]

\* onMediaState that takes a declared camera for a bound one.
onMediaStateBindsStream(prev, socketId, state) ==
    [k \in DOMAIN prev |->
        IF prev[k].id = socketId
        THEN [prev[k] EXCEPT !.video = state.video,
                             !.screenSharing = state.screenSharing,
                             !.stream = IF state.video THEN 1 ELSE @]
        ELSE prev[k]]

\* onMediaState (lines 294-303).
onMediaState(prev, socketId, state) ==
    [k \in DOMAIN prev |->
        IF prev[k].id = socketId
        THEN [prev[k] EXCEPT !.video = state.video,
                             !.screenSharing = state.screenSharing]
        ELSE prev[k]]

\* onScreenSharing (lines 305-314).
onScreenSharing(prev, socketId, isSharing) ==
    [k \in DOMAIN prev |->
        IF prev[k].id = socketId
        THEN [prev[k] EXCEPT !.screenSharing = isSharing]
        ELSE prev[k]]

\* An event of the channel's manager reaches the component: the callbacks
\* exist once setupManagerAndListeners has got past initialize.
ChannelEvent(label, next, seen) ==
    /\ chListening
    /\ participants' = next
    /\ rosterSeen' = seen
    /\ last' = label
    /\ UNCHANGED <<chListening, tileVars, serviceVars, endVars>>
    /\ UNCHANGED <<callVars, inviteVars, deviceVars, voiceVars, muteVars, now>>

OnStream(peerId, stream, type) ==
    ChannelEvent("ch.onStream", onStream(participants, stream, peerId, type),
                 rosterSeen)

OnUserLeft(peerId) ==
    ChannelEvent("ch.onUserLeft", onUserLeft(participants, peerId), rosterSeen)

OnVoiceRoster(members) ==
    ChannelEvent("ch.onVoiceRoster", onVoiceRoster(participants, members),
                 members)

OnMediaState(socketId, state) ==
    ChannelEvent("ch.onMediaState", onMediaState(participants, socketId, state),
                 rosterSeen)

OnScreenSharing(socketId, isSharing) ==
    ChannelEvent("ch.onScreenSharing",
                 onScreenSharing(participants, socketId, isSharing), rosterSeen)

\* An event of the provider's manager: setupEventListeners (part_005 lines
\* 681-730) has run once initializeManager has succeeded.
ProviderEvent(label, members, tiles) ==
    /\ isInitialized
    /\ pParticipants' = members
    /\ videoTiles' = tiles
    /\ last' = label
    /\ UNCHANGED afterTileVars
    /\ UNCHANGED <<callVars, inviteVars, deviceVars, voiceVars, muteVars, now>>

\* onVoiceRoster (lines 685-688).
OnProviderRoster(members) ==
    ProviderEvent("provider.onVoiceRoster", members, videoTiles)

\* onVideoTileUpdated (lines 691-702) for a tile of participant `owner`.
OnVideoTileUpdated(tileId, owner) ==
    ProviderEvent("provider.onVideoTileUpdated", pParticipants,
                  [videoTiles EXCEPT ![tileId] = owner])

\* onVideoTileRemoved (lines 705-714).
OnVideoTileRemoved(tileId) ==
    ProviderEvent("provider.onVideoTileRemoved", pParticipants,
                  [videoTiles EXCEPT ![tileId] = NoMember])

\* The events of the channel component.
NextRoster ==
    \/ SetupManagerAndListeners(TRUE, NULL)
    \/ \E q \in MemberIds, st \in Streams, type \in {"video", "screen"} :
          OnStream(q, st, type)
    \/ \E q \in MemberIds : OnUserLeft(q)
    \/ \E members \in Snapshots : OnVoiceRoster(members)
    \/ \E q \in MemberIds, state \in MediaStates : OnMediaState(q, state)
    \/ \E q \in MemberIds, b \in BOOLEAN : OnScreenSharing(q, b)

SpecRoster == Init /\ [][NextRoster]_vars

\* The events of the channel component and of the provider about the
\* participants TilePeers, in one call of the provider.
NextTiles ==
    \/ SetupManagerAndListeners(TRUE, NULL)
    \/ \E q \in TilePeers, st \in Streams, type \in {"video", "screen"} :
          OnStream(q, st, type)
    \/ \E q \in TilePeers : OnUserLeft(q)
    \/ \E members \in SnapshotsOf(TilePeers) : OnVoiceRoster(members)
    \/ \E q \in TilePeers, state \in MediaStates : OnMediaState(q, state)
    \/ \E q \in TilePeers, b \in BOOLEAN : OnScreenSharing(q, b)
    \/ ProviderJoinCall(1, 1)
    \/ StrategySucceeds(1)
    \/ ProviderJoinResolved(1)
    \/ ProviderLeaveCall
    \/ \E members \in SnapshotsOf(TilePeers) : OnProviderRoster(members)
    \/ \E t \in TileIds, q \in TilePeers : OnVideoTileUpdated(t, q)
    \/ \E t \in TileIds : OnVideoTileRemoved(t)

SpecTiles == Init /\ [][NextTiles]_vars

\* ------------------------------------------- one VoiceService, in detail
\* The signalling server for this instance: a socket that joins the channel
\* is sent an offer by every client already there, a client that joins is
\* announced to the sockets in the channel, and so is one that leaves.
Event(s, type, q) == [socket |-> s, type |-> type, from |-> q]

Events ==
    [socket : 1 .. MaxSockets,
     type : {"user-joined", "webrtc-offer", "user-disconnected"},
     from : RemotePeers]

\* joinChannel (lines 39-45) on socket s, as the callers issue it right
\* after connect() (part_003 lines 25-27, page.tsx lines 25-26).
JoinEvents(s) ==
    IF s \in joinedSockets THEN {}
    ELSE {Event(s, "webrtc-offer", q) : q \in present}

\* connect() is called (lines 19-20): with a socket it returns at once, and
\* the caller emits its join on that socket; otherwise getUserMedia is
\* awaited.
VsConnect ==
    /\ awaiting < MaxConnects
    /\ IF socket # NoSocket
       THEN /\ joinedSockets' = joinedSockets \cup {socket}
            /\ pending' = pending \cup JoinEvents(socket)
            /\ UNCHANGED awaiting
       ELSE /\ awaiting' = awaiting + 1
            /\ UNCHANGED <<joinedSockets, pending>>
    /\ disconnected' = FALSE
    /\ last' = "svc.connect"
    /\ UNCHANGED <<socket, liveSockets, socketsMade, localStream, liveStreams,
                   svcPeerConnections, orphans, present>>
    /\ UNCHANGED <<tileVars, rosterVars, endVars>>
    /\ UNCHANGED <<callVars, inviteVars, deviceVars, voiceVars, muteVars, now>>

\* getUserMedia resolves for a connect() that awaits it (lines 23-27): the
\* stream is kept, a socket is created and given its listeners, and the
\* caller goes on to joinChannel.
GetUserMediaResolves ==
    /\ awaiting > 0
    /\ socketsMade < MaxSockets
    /\ LET n == socketsMade + 1
       IN /\ socketsMade' = n
          /\ localStream' = n
          /\ liveStreams' = liveStreams \cup {n}
          /\ socket' = n
          /\ liveSockets' = liveSockets \cup {n}
          /\ joinedSockets' = joinedSockets \cup {n}
          /\ pending' = pending \cup JoinEvents(n)
    /\ awaiting' = awaiting - 1
    /\ last' = "svc.connected"
    /\ UNCHANGED <<svcPeerConnections, orphans, present, disconnected>>
    /\ UNCHANGED <<tileVars, rosterVars, endVars>>
    /\ UNCHANGED <<callVars, inviteVars, deviceVars, voiceVars, muteVars, now>>

\* getUserMedia rejects (lines 29-32): connect() throws to its caller.
GetUserMediaRejects ==
    /\ awaiting > 0
    /\ awaiting' = awaiting - 1
    /\ last' = "svc.connectFailed"
    /\ UNCHANGED <<socket, liveSockets, joinedSockets, socketsMade, localStream,
                   liveStreams, svcPeerConnections, orphans, present, pending,
                   disconnected>>
    /\ UNCHANGED <<tileVars, rosterVars, endVars>>
    /\ UNCHANGED <<callVars, inviteVars, deviceVars, voiceVars, muteVars, now>>

\* disconnect() (lines 160-166): the registered connections are closed and
\* the registry cleared, the tracks of this.localStream are stopped, and
\* this.socket is disconnected and dropped.
SvcDisconnect ==
    /\ svcPeerConnections' = [q \in RemotePeers |-> NoLink]
    /\ liveStreams' = liveStreams \ {localStream}
    /\ liveSockets' = liveSockets \ {socket}
    /\ joinedSockets' = joinedSockets \ {socket}
    /\ pending' = {e \in pending : e.socket # socket}
    /\ socket' = NoSocket
    /\ disconnected' = TRUE
    /\ last' = "svc.disconnect"
    /\ UNCHANGED <<socketsMade, awaiting, localStream, orphans, present>>
    /\ UNCHANGED <<tileVars, rosterVars, endVars>>
    /\ UNCHANGED <<callVars, inviteVars, deviceVars, voiceVars, muteVars, now>>

\* A remote client joins the channel, or leaves it; the server tells every
\* socket of the service that is in the channel.
RemoteJoins(q) ==
    /\ q \notin present
    /\ \A e \in pending : e.from # q
    /\ present' = present \cup {q}
    /\ pending' = pending \cup {Event(s, "user-joined", q) : s \in joinedSockets}
    /\ last' = "svc.remoteJoins"
    /\ UNCHANGED <<socket, liveSockets, joinedSockets, socketsMade, awaiting,
                   localStream, liveStreams, svcPeerConnections, orphans,
                   disconnected>>
    /\ UNCHANGED <<tileVars, rosterVars, endVars>>
    /\ UNCHANGED <<callVars, inviteVars, deviceVars, voiceVars, muteVars, now>>

RemoteLeaves(q) ==
    /\ q \in present
    /\ \A e \in pending : e.from # q
    /\ present' = present \ {q}
    /\ pending' = pending \cup
                     {Event(s, "user-disconnected", q) : s \in joinedSockets}
    /\ last' = "svc.remoteLeaves"
    /\ UNCHANGED <<socket, liveSockets, joinedSockets, socketsMade, awaiting,
                   localStream, liveStreams, svcPeerConnections, orphans,
                   disconnected>>
    /\ UNCHANGED <<tileVars, rosterVars, endVars>>
    /\ UNCHANGED <<callVars, inviteVars, deviceVars, voiceVars, muteVars, now>>

\* A socket of the service receives an event: the listeners that
\* setupSocketListeners gave it run (lines 53-96).  'user-joined' and
\* 'webrtc-offer' create a connection and register it under the peer's id,
\* whatever is registered there; 'user-disconnected' closes and deletes the
\* registered one.
SocketEvent(e) ==
    /\ e \in pending
    /\ pending' = pending \ {e}
    /\ IF e.type = "user-disconnected"
       THEN /\ svcPeerConnections' = removePeer(svcPeerConnections, e.from)
            /\ UNCHANGED orphans
       ELSE /\ svcPeerConnections[e.from] # NoLink => orphans < MaxOrphans
            /\ svcPeerConnections' =
                  IF e.type = "user-joined"
                  THEN createPeerConnection(svcPeerConnections, e.from, TRUE)
                  ELSE [createPeerConnection(svcPeerConnections, e.from, FALSE)
                           EXCEPT ![e.from].remote = "set",
                                  ![e.from].local = "pending"]
            /\ orphans' = IF svcPeerConnections[e.from] # NoLink
                          THEN orphans + 1 ELSE orphans
    /\ last' = "svc." \o e.type
    /\ UNCHANGED <<socket, liveSockets, joinedSockets, socketsMade, awaiting,
                   localStream, liveStreams, present, disconnected>>
    /\ UNCHANGED <<tileVars, rosterVars, endVars>>
    /\ UNCHANGED <<callVars, inviteVars, deviceVars, voiceVars, muteVars, now>>

NextService ==
    \/ VsConnect
    \/ GetUserMediaResolves
    \/ GetUserMediaRejects
    \/ SvcDisconnect
    \/ \E q \in RemotePeers : RemoteJoins(q)
    \/ \E q \in RemotePeers : RemoteLeaves(q)
    \/ \E e \in Events : SocketEvent(e)

SpecService == Init /\ [][NextService]_vars

\* ------------------------------------------- CallStateManager's listeners
\* subscribe (part_011 lines 158-163): the listener is added to the set and
\* called at once with a copy of the call state made for it.
subscribe(S, l) ==
    [S EXCEPT !.ls = S.ls \cup {l}, !.dl[l] = S.cs, !.sh = S.sh \ {l}]

\* The function subscribe returns (line 162).
unsubscribe(S, l) == [S EXCEPT !.ls = S.ls \ {l}]

Subscribe(l) ==
    /\ Install(subscribe(Cur, l))
    /\ last' = "subscribe"
    /\ UNCHANGED <<pc, jm, jch, now>>
    /\ UNCHANGED inviteVars
    /\ UNCHANGED otherVars

Unsubscribe(l) ==
    /\ delivered[l] # Undelivered
    /\ Install(unsubscribe(Cur, l))
    /\ last' = "unsubscribe"
    /\ UNCHANGED <<pc, jm, jch, now>>
    /\ UNCHANGED inviteVars
    /\ UNCHANGED otherVars

\* What a listener holds is a call state object, not null.
HoldsState(l) == delivered[l] # Undelivered /\ delivered[l] # NULL

\* The listeners that hold the very object listener l holds: the object of
\* a notification is handed to every listener (lines 184-186), the object of
\* a subscription to the subscriber alone.
SameObject(l) == IF l \in shared THEN shared ELSE {l}

\* A listener assigns to a property of the object it was handed (here
\* isMinimized). The object is a copy ({ ...this.callState }, lines 160 and
\* 184), so the singleton's callState keeps its value.
ObserverWritesField(l) ==
    /\ HoldsState(l)
    /\ delivered' = [k \in Listeners |->
                        IF k \in SameObject(l)
                        THEN [delivered[k] EXCEPT !.isMinimized = ~@]
                        ELSE delivered[k]]
    /\ last' = "observer.write"
    /\ UNCHANGED <<voiceManager, callState, mgr, created, threw, pc, jm, jch,
                   listeners, shared, now>>
    /\ UNCHANGED inviteVars
    /\ UNCHANGED otherVars

\* A subscribed listener calls setTime(t) on the startTime of the object it
\* was handed. The spread of lines 160 and 184 copies the reference to the
\* Date that startCall created (line 85), so the Date of the singleton's
\* callState, and of every copy made of it, is the one that changes.
ObserverSetsStartTime(l, t) ==
    /\ l \in listeners
    /\ HoldsState(l)
    /\ callState # NULL
    /\ t # callState.startTime
    /\ callState' = [callState EXCEPT !.startTime = t]
    /\ delivered' = [k \in Listeners |->
                        IF k \in listeners \cup SameObject(l) /\ HoldsState(k)
                        THEN [delivered[k] EXCEPT !.startTime = t]
                        ELSE delivered[k]]
    /\ last' = "observer.setTime"
    /\ UNCHANGED <<voiceManager, mgr, created, threw, pc, jm, jch, listeners,
                   shared, now>>
    /\ UNCHANGED inviteVars
    /\ UNCHANGED otherVars

NextListeners ==
    \/ \E l \in Listeners : Subscribe(l)
    \/ \E l \in Listeners : Unsubscribe(l)
    \/ \E ch \in Channels, t \in CallTypes : ApiStartCall(ch, t)
    \/ MinimizeCall
    \/ MaximizeCall
    \/ \E t \in CallTypes : ApiUpdateCallType(t)
    \/ ApiEndCall("ok")
    \/ \E l \in Listeners : ObserverWritesField(l)
    \/ \E l \in Listeners, t \in 0 .. MaxCallTime : ObserverSetsStartTime(l, t)

SpecListeners == Init /\ [][NextListeners]_vars

\* ------------------------------------------------------------------ claims
\* Steps of a joinCall invocation p.
JoinBegins(p) == pc[p] = "initialize" /\ pc'[p] = "join"
StateInstalled(p) == pc[p] = "join" /\ pc'[p] = "idle" /\ last' = "startCall"
AllIdle == \A p \in Surfaces : pc[p] = "idle"

\* C1: when a joinCall issues joinVoiceChannel, and when it installs its
\* state with startCall, no ActiveCallState of another channel exists any
\* more (the previous call has been ended, its manager torn down and
\* dropped), and the state installed describes the new channel.
C1_PreviousCallTornDownFirst ==
    [][\A p \in Surfaces :
          /\ (JoinBegins(p) \/ StateInstalled(p)) =>
                (callState = NULL \/ callState.channelId = jch[p])
          /\ StateInstalled(p) =>
                (callState' # NULL /\ callState'.channelId = jch[p])]_vars

\* C2: the shared manager is never asked to join a channel while it is still
\* joined to one, and once no joinCall is in flight the ActiveCallState names
\* the channel the shared manager is joined to.
C2_OneJoinPerManager ==
    /\ [][\A p \in Surfaces :
             JoinBegins(p) => mgr[jm[p]].channel = NoChannel]_vars
    /\ [](AllIdle /\ callState # NULL /\ voiceManager # NoManager =>
             mgr[voiceManager].channel = callState.channelId)

\* C3: a joinCall whose call was ended while it was suspended (the singleton
\* no longer holds the manager it is joining on) installs no ActiveCallState
\* when its await resolves.
C3_LateResolutionDiscarded ==
    [][\A p \in Surfaces :
          (StateInstalled(p) /\ voiceManager # jm[p]) =>
              callState' = callState]_vars

\* C4: endCall always ends in "no call, no manager" and raises nothing, and
\* invoked in that state it changes nothing: twice is the same as once.
C4_EndCallIdempotent ==
    [][last' \in EndOps =>
          /\ callState' = NULL
          /\ voiceManager' = NoManager
          /\ ~threw'
          /\ (callState = NULL /\ voiceManager = NoManager) =>
                (mgr' = mgr /\ created' = created)]_vars

C4_Witness ==
    /\ last = "endCall.idle"
    /\ callState = NULL
    /\ voiceManager = NoManager
    /\ created > 0

\* C5: endCall on an active call clears the state and the manager reference
\* and has invoked both leaveVoiceChannel and disconnect on the manager, also
\* when a teardown step throws.
C5_EndCallTearsDownFully ==
    [][(last' \in EndOps /\ callState # NULL /\ voiceManager # NoManager) =>
          /\ callState' = NULL
          /\ voiceManager' = NoManager
          /\ mgr'[voiceManager].leaveInvoked
          /\ mgr'[voiceManager].disconnectInvoked]_vars

\* C6: minimizeCall and maximizeCall change isMinimized only, and nothing at
\* all when there is no call; the manager is neither replaced nor called.
C6_MinimizeMaximizeFrame ==
    [][last' \in {"minimizeCall", "maximizeCall"} =>
          /\ voiceManager' = voiceManager
          /\ mgr' = mgr
          /\ created' = created
          /\ IF callState = NULL
             THEN callState' = NULL
             ELSE callState' =
                    [callState EXCEPT !.isMinimized = (last' = "minimizeCall")]]_vars

C6_Witness ==
    /\ last = "maximizeCall"
    /\ callState # NULL
    /\ ~callState.isMinimized
    /\ callState.startTime < now
    /\ callState.callType = "video"
    /\ voiceManager # NoManager
    /\ mgr[voiceManager].channel # NoChannel

\* C7: the call state as the spec's state machine sees it.
Abs(cs) ==
    IF cs = NULL THEN "none"
    ELSE IF cs.isMinimized THEN "minimized" ELSE "active"

\* C7: the call state changes only by start (none to active), minimize
\* (active to minimized), maximize (minimized to active, also as joinCall's
\* short-circuit) and end (to none), and start is issued in state none only.
\* End is granted from the minimized state too, where the minimized bar's End
\* button issues it; what remains is the claim's last clause.
C7_StartNotReentered ==
    [][/\ Abs(callState') # Abs(callState) =>
             \/ Abs(callState) = "none" /\ Abs(callState') = "active"
                   /\ last' = "startCall"
             \/ Abs(callState) = "active" /\ Abs(callState') = "minimized"
                   /\ last' = "minimizeCall"
             \/ Abs(callState) = "minimized" /\ Abs(callState') = "active"
                   /\ last' \in {"maximizeCall", "joinCall.maximize"}
             \/ Abs(callState) \in {"active", "minimized"}
                   /\ Abs(callState') = "none"
                   /\ last' \in EndOps \cup {"joinCall", "joinCall.catch"}
       /\ last' = "startCall" => callState = NULL]_vars

\* C8: joinCall for the channel of the connected active call only maximizes:
\* it never goes on to initialize, and the short-circuit sets isMinimized to
\* false and leaves channel, start time, manager and every joinCall in
\* flight as they are.
C8_RejoinShortCircuits ==
    [][/\ \A p \in Surfaces :
             (pc[p] = "idle" /\ pc'[p] = "initialize") =>
                 ~(/\ callState # NULL
                   /\ voiceManager # NoManager
                   /\ mgr[voiceManager].connected
                   /\ callState.channelId = jch'[p])
       /\ last' = "joinCall.maximize" =>
             /\ callState # NULL
             /\ callState' = [callState EXCEPT !.isMinimized = FALSE]
             /\ voiceManager' = voiceManager
             /\ mgr' = mgr
             /\ created' = created
             /\ pc' = pc /\ jm' = jm /\ jch' = jch]_vars

C8_Witness ==
    /\ last = "joinCall.maximize"
    /\ callState # NULL
    /\ ~callState.isMinimized
    /\ callState.startTime < now
    /\ \E p \in Surfaces : pc[p] # "idle"

\* C9: the pending list holds at most one invite per (channel, inviter).
C9_OneInvitePerPair ==
    \A i, j \in 1 .. Len(invites) :
        SamePair(invites[i], invites[j]) => i = j

C9_Witness ==
    /\ Len(invites) = 2
    /\ \E k \in 1 .. 2 : invites[k].expiresAt > invites[k].id[3] + InviteTTL
    /\ last = "receive"

\* C10: a repeated invite leaves the pending invite with expiresAt = now +
\* TTL, and an invite is removed by expiry only once its expiresAt has come.
C10_RefreshedInviteKeepsItsDeadline ==
    [][/\ last' = "receive" =>
             \E k \in 1 .. Len(invites') :
                 invites'[k].expiresAt = now + InviteTTL
       /\ last' = "expire" =>
             \A k \in 1 .. Len(invites) :
                 (\A n \in 1 .. Len(invites') : invites'[n] # invites[k]) =>
                     invites[k].expiresAt <= now]_vars

\* C11: an invite nobody accepted, declined or closed is gone once its TTL
\* has elapsed.  A due timer runs before the clock moves on, so an invite
\* still pending after its expiresAt is one that no timer will ever remove.
C11_ExpiredInviteRemoved ==
    \A k \in 1 .. Len(invites) : invites[k].expiresAt >= now

\* C12: accepting or declining a pending invite removes it at once and
\* leaves no expiry timer of it pending: neither the one registered when it
\* arrived nor one registered for it by a later repeated invite.
C12_AcceptCancelsExpiryTimer ==
    [][last' \in {"accept", "decline"} =>
          \A k \in 1 .. Len(invites) :
              (\A n \in 1 .. Len(invites') : invites'[n].id # invites[k].id) =>
                  ~\E t \in timeouts' :
                      /\ t.id[1] = invites[k].channelId
                      /\ t.id[2] = invites[k].inviterUserId
                      /\ t.id[3] >= invites[k].id[3]
                      /\ t.at <= invites[k].expiresAt]_vars

\* C13: the strategies are tried in the order combined, audio-only,
\* video-only, each only after every earlier one failed; initialization
\* succeeds, and joinCall goes on to join, exactly when the strategy tried
\* last succeeded; when all three have failed a permission error is set,
\* isConnecting is false again, and the invocation has neither set activeCall
\* nor asked the manager to join.
CascadeOrder == <<"full", "audio", "video">>

C13_OrderedFallbackCascade ==
    [][\A p \in Surfaces :
          LET t == tried'[p]
              n == Len(t)
              requested == vpc[p] \in {"full", "audio", "video"} /\ t # tried[p]
          IN /\ n <= 3
             /\ \A i \in 1 .. n :
                   /\ t[i].strategy = CascadeOrder[i]
                   /\ i < n => ~t[i].ok
             /\ requested =>
                   /\ (vpc'[p] = "joining") = t[n].ok
                   /\ t[n].ok => isInitialized' /\ activeCall' = vch[p]
                                    /\ pmChannel' = vch[p]
                   /\ (n = 3 /\ ~t[n].ok) =>
                         /\ vpc'[p] = "idle"
                         /\ permissionError' # NoError
                         /\ ~isConnecting'
                         /\ activeCall' = activeCall
                         /\ pmChannel' = pmChannel
                         /\ isInitialized' = isInitialized
                   /\ (n < 3 /\ ~t[n].ok) =>
                         /\ vpc'[p] = CascadeOrder[n + 1]
                         /\ activeCall' = activeCall
                         /\ pmChannel' = pmChannel]_vars

C13_Witness ==
    /\ last = "initializeManager.failed"
    /\ \E p \in Surfaces : Len(tried[p]) = 3 /\ ~tried[p][3].ok /\ vpc[p] = "idle"
    /\ permissionError = DeniedMessage
    /\ activeCall = NoChannel
    /\ pmChannel = NoChannel
    /\ ~isConnecting
    /\ ~isInitialized

\* C14: when device acquisition fails for good, the permission error shown
\* is the classification of the failure's reason: denied for NotAllowedError,
\* no device for NotFoundError, device busy for NotReadableError, constraints
\* unsatisfiable for OverconstrainedError; in the provider, in the channel
\* component's first attempt and in its retry alike.
ClassificationOf(name) ==
    IF name = "NotAllowedError" THEN DeniedMessage
    ELSE IF name = "NotFoundError" THEN NoDeviceMessage
    ELSE IF name = "NotReadableError" THEN BusyMessage
    ELSE ConstraintsMessage

C14_ClassificationByReason ==
    [][(/\ last' \in {"initializeManager.failed", "setup.failed", "retry.failed"}
        /\ failure'.name # "AbortError") =>
          LET surfaced == IF last' = "initializeManager.failed"
                          THEN permissionError' ELSE chPermissionError'
          IN surfaced = ClassificationOf(failure'.name)]_vars

\* C15: an ICE candidate that arrives before its peer's remote description
\* has been set is kept and applied later: handling a candidate never loses
\* it.
C15_EarlyCandidateBuffered ==
    [][last' = "vs.candidate" =>
          \A c, q \in Peers :
              candidate'[q][c] # candidate[q][c] => candidate'[q][c] # "lost"]_vars

\* C16: handling 'user-disconnected' for peer q leaves no entry and no open
\* connection for q, whatever state the connection was in, and touches no
\* other entry; disconnect() leaves no entry and no open connection at all.
C16_DepartedPeerRemoved ==
    [][/\ last' \in DisconnectedLabels =>
             \A c \in Peers :
                 inbox'[c] # inbox[c] =>
                     LET q == Head(inbox[c]).from
                     IN /\ peerConnections'[c][q] = NoLink
                        /\ q \notin openPcs'[c]
                        /\ \A r \in Peers \ {q} :
                              peerConnections'[c][r] = peerConnections[c][r]
       /\ last' = "vs.disconnect" =>
             \A c \in Peers :
                 status'[c] # status[c] =>
                     /\ \A q \in Peers : peerConnections'[c][q] = NoLink
                     /\ openPcs'[c] = {}]_vars

\* An offer had been sent and no answer received when the peer left, and
\* another connection is still registered.
C16_Witness ==
    /\ last = "vs.userDisconnected:set/none"
    /\ \E c \in Peers :
          /\ status[c] = "joined"
          /\ \E q, r \in Peers :
                /\ status[q] = "left"
                /\ peerConnections[c][q] = NoLink
                /\ peerConnections[c][r] # NoLink

\* C17: with nothing on its way and no negotiation under way or failed,
\* every client in the channel has exactly one entry for every other client
\* in it, fully negotiated, and none for anyone else; of two clients only the
\* one that was there first is the initiator.
Members == {c \in Peers : status[c] = "joined"}
Registry(c) == {q \in Peers : peerConnections[c][q] # NoLink}

Settled ==
    /\ \A c \in Peers : inbox[c] = <<>>
    /\ \A c, q \in Peers :
          peerConnections[c][q] # NoLink => peerConnections[c][q].local = "set"

C18_FailedNegotiationRetried ==
    [][last' = "vs.negotiationFailed" =>
          \A c, q \in Peers :
              (/\ peerConnections[c][q] # NoLink
               /\ peerConnections'[c][q] # peerConnections[c][q]) =>
                  peerConnections'[c][q].local = "pending"]_vars

\* C19: a mute toggle, through useVoiceCall.toggleMute or through
\* VoiceCallProvider.toggleAudio, inverts the muted flag of the manager it
\* acts on (so that a second toggle restores it) and changes nothing else:
\* not the call state, not the shared manager or any manager's channel and
\* connection, not the provider's active call, and no other manager's flag.
C19_MuteToggleOnlyFlipsMuted ==
    [][/\ last' = "toggleMute" =>
            /\ UNCHANGED <<callVars, deviceVars, pmCreated, pmMuted, localMuted>>
            /\ \/ voiceManager = NoManager /\ mediaMuted' = mediaMuted
               \/ \E m \in ManagerIds :
                     /\ mgr[m].exists
                     /\ mediaMuted' = [mediaMuted EXCEPT ![m] = ~mediaMuted[m]]
       /\ last' = "provider.toggleAudio" =>
            /\ UNCHANGED <<callVars, deviceVars, mediaMuted, pmCreated>>
            /\ IF pmCreated
               THEN localMuted' = ~localMuted /\ pmMuted' = ~pmMuted
               ELSE UNCHANGED <<localMuted, pmMuted>>]_vars

\* C19 witness: during an active call of the provider and of the singleton,
\* the mute control has just brought the flag back to its starting value,
\* which takes two toggles.
C19_Witness ==
    /\ last = "provider.toggleAudio"
    /\ pmCreated
    /\ activeCall # NoChannel
    /\ callState # NULL
    /\ localMuted = MutedAtStart
    /\ pmMuted = MutedAtStart
    /\ voiceManager # NoManager
    /\ ~mediaMuted[voiceManager]

\* The steps that are an operation of the CallStateManager on its call state.
StateOps ==
    {"startCall", "minimizeCall", "maximizeCall", "updateCallType", "endCall",
     "endCall.idle"}

\* C20: after every CallStateManager operation each subscribed listener holds
\* the singleton's current call state; a listener is handed the current state
\* by the step that subscribes it; an operation hands nothing to a listener
\* that is not subscribed; and nothing an observer does to what it was
\* handed changes the singleton's call state.
C20_ObserversReadOnly ==
    [][/\ last' \in StateOps =>
            /\ \A l \in listeners' : delivered'[l] = callState'
            /\ \A l \in Listeners \ listeners : delivered'[l] = delivered[l]
       /\ last' = "subscribe" =>
            \A l \in listeners' \ listeners : delivered'[l] = callState'
       /\ last' \in {"observer.write", "observer.setTime"} =>
            callState' = callState]_vars

StreamsOf(P, id) ==
    IF findIndex(P, id) > 0
    THEN <<P[findIndex(P, id)].stream, P[findIndex(P, id)].screenStream>>
    ELSE <<NoStream, NoStream>>

\* C26: after a roster update the participants are exactly the members of
\* the snapshot, in its order and with the media state it declares; a member
\* that was listed keeps its camera and screen streams and a new one has
\* none.
C26_SnapshotAuthoritative ==
    [][last' = "ch.onVoiceRoster" =>
          /\ Len(participants') = Len(rosterSeen')
          /\ \A k \in DOMAIN participants' :
                /\ participants'[k].id = rosterSeen'[k].id
                /\ participants'[k].video = rosterSeen'[k].video
                /\ participants'[k].screenSharing = rosterSeen'[k].screenSharing
                /\ <<participants'[k].stream, participants'[k].screenStream>>
                      = StreamsOf(participants, participants'[k].id)]_vars

\* C26 witness: a roster update has dropped a member and kept one that has
\* both of its streams.
C26_Witness ==
    /\ last = "ch.onVoiceRoster"
    /\ Len(participants) = 1
    /\ participants[1].stream # NoStream
    /\ participants[1].screenStream # NoStream

\* The stream bindings of the participant list and the tiles of the provider.
BoundStreams ==
    {<<participants[k].id, "video", participants[k].stream>> :
        k \in {i \in DOMAIN participants : participants[i].stream # NoStream}}
    \cup
    {<<participants[k].id, "screen", participants[k].screenStream>> :
        k \in {i \in DOMAIN participants :
                  participants[i].screenStream # NoStream}}

Tiles == {<<t, videoTiles[t]>> : t \in {u \in TileIds : videoTiles[u] # NoMember}}

\* P without the declared media state of its participants.
Undeclared(P) ==
    [k \in DOMAIN P |-> [id |-> P[k].id, stream |-> P[k].stream,
                         screenStream |-> P[k].screenStream]]

\* C27: a roster, media-state or screen-sharing update binds no stream and
\* makes no tile, and a media-state update changes the declared state of one
\* participant at most; a stream is bound only by a stream event and a tile
\* made only by a tile-updated event; after user-left the participant, with
\* its streams, is gone, and after tile-removed the tile is.
C27_DeclaredStateMakesNoTile ==
    [][/\ last' \in {"ch.onVoiceRoster", "ch.onMediaState", "ch.onScreenSharing",
                     "provider.onVoiceRoster"} =>
            /\ BoundStreams' \subseteq BoundStreams
            /\ Tiles' = Tiles
       /\ last' \in {"ch.onMediaState", "ch.onScreenSharing"} =>
            /\ Undeclared(participants') = Undeclared(participants)
            /\ \A i, j \in DOMAIN participants :
                  (participants'[i] # participants[i]
                      /\ participants'[j] # participants[j])
                  => participants[i].id = participants[j].id
       /\ ~(BoundStreams' \subseteq BoundStreams) => last' = "ch.onStream"
       /\ ~(Tiles' \subseteq Tiles) => last' = "provider.onVideoTileUpdated"
       /\ last' = "ch.onUserLeft" =>
            \E q \in MemberIds :
               /\ participants' = SelectSeq(participants, LAMBDA x : x.id # q)
               /\ \A b \in BoundStreams' : b[1] # q
       /\ last' = "provider.onVideoTileRemoved" =>
            \E t \in TileIds :
               /\ videoTiles'[t] = NoMember
               /\ \A u \in TileIds \ {t} : videoTiles'[u] = videoTiles[u]]_vars

\* C27 witness: the channel and the provider both show a participant whose
\* camera is declared on, with no stream bound and no tile made for it.
C27_Witness ==
    /\ last = "ch.onMediaState"
    /\ Len(participants) > 0
    /\ participants[1].video
    /\ participants[1].stream = NoStream
    /\ Len(pParticipants) > 0
    /\ pParticipants[1].video
    /\ Tiles = {}

\* No joinCall of the provider is in flight.
ProviderIdle == \A p \in Surfaces : vpc[p] = "idle"

\* C22: joinVoiceChannel(B) is issued on a manager that was asked to join
\* another channel, and has not left it, only by a joinCall step that has
\* invoked leaveVoiceChannel first; and when no joinCall is in flight and the
\* manager is in a channel, activeCall names that channel.
C22_PriorCallLeftFirst ==
    [][/\ (pmChannel' # NoChannel /\ pmChannel # NoChannel
              /\ pmChannel' # pmChannel)
          => (last' = "provider.joinCall" /\ activeCall # NoChannel)
       /\ (ProviderIdle' /\ pmChannel' # NoChannel) => activeCall' = pmChannel']_vars

\* C23: whenever no joinCall is in flight, activeCall is set exactly when
\* the manager is in a channel, and names that channel.
C23_ActiveCallMatchesManager ==
    ProviderIdle => activeCall = pmChannel

\* C24: every connection the service has created and not closed is the one
\* registered under its peer's id.
C24_OpenConnectionsRegistered == orphans = 0

\* C28: once disconnect() has been called and no connect() since, and no
\* connect() is awaiting getUserMedia any more, the service holds no socket,
\* no registered connection and no live track, and is in no channel.
C28_DisconnectedStaysDown ==
    (disconnected /\ awaiting = 0) =>
        /\ socket = NoSocket
        /\ liveSockets = {}
        /\ joinedSockets = {}
        /\ liveStreams = {}
        /\ \A q \in RemotePeers : svcPeerConnections[q] = NoLink

\* C29: however the connect() calls overlap, the service has at most one
\* socket with its listeners at a time.
C29_OneSocket == Cardinality(liveSockets) <= 1

\* ------------------------------------ EnhancedVoiceChannel joins its channel
\* The component is mounted with channelId = 1.  On mount its effects run in
\* order: the first (part_004 lines 145-364) creates the manager and starts
\* setupManagerAndListeners, which awaits manager.initialize; the second, the
\* channel-change effect (lines 366-395), finds isManagerInitialized.current
\* false and returns.  Init is the state after these, SetupManagerAndListeners
\* the settling of the initialization.
ConnectFailedMessage ==
    "Failed to connect to voice channel. Please check your connection and try again."

\* The channel-change effect (part_004 lines 366-395) running again because
\* one of its dependencies [channelId, onLocalStreamChange] changed: channelId
\* becomes ch, or stays ch while onLocalStreamChange is a new function.  The
\* cleanup of a run that got past its guard leaves the channel; the new run
\* returns unless the manager is initialized, and otherwise leaves and asks
\* the manager to join ch.  It is taken to run between joins, not during one.
ChannelEffect(ch) ==
    /\ chJoinPc = "idle"
    /\ chChannelId' = ch
    /\ IF chInitialized
       THEN chJoin' = ch /\ chJoinPc' = "joining"
       ELSE chJoin' = NoChannel /\ chJoinPc' = chJoinPc
    /\ last' = "channel.effect"
    /\ UNCHANGED <<callVars, inviteVars, deviceVars, voiceVars, muteVars, now>>
    /\ UNCHANGED <<tileVars, rosterVars, serviceVars, barVars>>

\* joinVoiceChannel resolves (lines 374-381): streams and media state are
\* copied into the component.
ChannelJoinResolved ==
    /\ chJoinPc = "joining"
    /\ chJoinPc' = "idle"
    /\ last' = "channel.joined"
    /\ UNCHANGED <<chChannelId, chJoin>>
    /\ UNCHANGED <<callVars, inviteVars, deviceVars, voiceVars, muteVars, now>>
    /\ UNCHANGED <<tileVars, rosterVars, serviceVars, barVars>>

\* joinVoiceChannel rejects (lines 382-385).
ChannelJoinRejected ==
    /\ chJoinPc = "joining"
    /\ chJoinPc' = "idle"
    /\ chPermissionError' = ConnectFailedMessage
    /\ last' = "channel.joinFailed"
    /\ UNCHANGED <<chChannelId, chJoin>>
    /\ UNCHANGED <<providerVars, chInitialized, failure>>
    /\ UNCHANGED <<callVars, inviteVars, voiceVars, muteVars, now>>
    /\ UNCHANGED <<tileVars, rosterVars, serviceVars, barVars>>

NextChannelJoin ==
    \/ \E ok \in BOOLEAN, error \in MediaErrors : SetupManagerAndListeners(ok, error)
    \/ \E ok \in BOOLEAN, error \in MediaErrors : HandleRetryPermissions(ok, error)
    \/ \E ch \in Channels : ChannelEffect(ch)
    \/ ChannelJoinResolved
    \/ ChannelJoinRejected

\* What the runtime does by itself happens: a pending initialization and a
\* pending join settle.  A change of the component's props is up to its
\* parent and is not bound to happen.
SpecChannelJoin ==
    /\ Init
    /\ [][NextChannelJoin]_vars
    /\ WF_vars(\E ok \in BOOLEAN, error \in MediaErrors :
                   SetupManagerAndListeners(ok, error))
    /\ WF_vars(ChannelJoinResolved \/ ChannelJoinRejected)

\* C25: once the mounted component's device initialization has succeeded,
\* its manager is eventually asked to join the channel of the channelId prop.
C25_InitializedChannelJoins == chInitialized ~> (chJoin = chChannelId)

\* ------------------------------------------------------- MinimizedCallBar
\* The bar is mounted with the layout and subscribed to the singleton from
\* then on (MinimizedCallBar.tsx lines 66-68), so that its callState is the
\* copy of the last notification; isMuted starts as true (line 63).

\* The mute-sync effect (lines 71-76), run after a render in which the bar's
\* callState has changed: with a manager in the singleton, isMuted becomes the
\* manager's muted flag.
BarSyncsMute ==
    /\ barSeen # callState
    /\ barSeen' = callState
    /\ barMuted' = IF voiceManager # NoManager THEN mediaMuted[voiceManager]
                   ELSE barMuted
    /\ last' = "bar.sync"
    /\ UNCHANGED <<callVars, inviteVars, deviceVars, voiceVars, muteVars, now>>
    /\ UNCHANGED <<tileVars, rosterVars, serviceVars, joinVars>>

\* The bar is rendered (line 117) and its effects have run.
BarShown ==
    /\ callState # NULL
    /\ callState.isMinimized
    /\ barSeen = callState

\* handleToggleMute (lines 108-114), a click on the bar's mute button: with
\* a manager, toggleAudio is called with isMuted and isMuted is negated.
BarToggleMute ==
    /\ BarShown
    /\ IF voiceManager # NoManager
       THEN /\ mediaMuted' = [mediaMuted EXCEPT
                                 ![voiceManager] = toggleAudio(@, barMuted)]
            /\ barMuted' = ~barMuted
       ELSE UNCHANGED <<mediaMuted, barMuted>>
    /\ last' = "bar.toggleMute"
    /\ UNCHANGED <<pmCreated, pmMuted, localMuted, barSeen>>
    /\ UNCHANGED <<callVars, inviteVars, deviceVars, voiceVars, now>>
    /\ UNCHANGED <<tileVars, rosterVars, serviceVars, joinVars>>

\* The bar next to the operations that start, minimize and end calls and to
\* the mute control of the other surfaces.
NextBar ==
    \/ ApiGetOrCreateManager
    \/ \E ch \in Channels, t \in CallTypes : ApiStartCall(ch, t)
    \/ MinimizeCall
    \/ MaximizeCall
    \/ ApiEndCall("ok")
    \/ \E m \in ManagerIds \cup {NoManager} : ToggleMute(m)
    \/ BarSyncsMute
    \/ BarToggleMute

SpecBar == Init /\ [][NextBar]_vars

\* C30: whenever the bar is shown for a call that has a manager, its isMuted
\* equals the manager's muted flag, and every click on its mute button
\* inverts the manager's muted flag.
C30_BarMuteMatchesManager ==
    [][/\ (BarShown' /\ voiceManager' # NoManager)
            => barMuted' = mediaMuted'[voiceManager']
       /\ (last' = "bar.toggleMute" /\ voiceManager # NoManager)
            => mediaMuted'[voiceManager] = ~mediaMuted[voiceManager]]_vars

====
